---- MODULE Spec2Model ----
(***************************************************************************)
(* Archipelago client stack of the Selaco engine.                          *)
(*                                                                         *)
(* Two of the repository's implementations are modelled:                   *)
(*   - the LWS-based session client: ArchipelagoClient of                  *)
(*     archipelago_protocol.cpp on top of LWSClient (lws_client.cpp);      *)
(*     its state is the records  ap  (ArchipelagoClient) and  ws           *)
(*     (LWSClient);  lib  is the libwebsockets connection the client       *)
(*     talks to.                                                           *)
(*   - the raw-socket client: ArchipelagoClient of archipelago_client.cpp  *)
(*     with its Impl; its state is the records  cl  and  impl ;  rt  is    *)
(*     the read thread and  pc  the caller's position inside a blocking    *)
(*     call.                                                               *)
(* Handlers are operators from a machine record to a machine record, so    *)
(* that a handler calling another handler is an operator applied inside    *)
(* another; one action applies one public call or one callback.            *)
(***************************************************************************)
EXTENDS Integers, Sequences, FiniteSets, TLC

VARIABLES
    client,     \* which implementation this behaviour exercises
    ap,         \* LWS-based ArchipelagoClient (archipelago_protocol.h:81-108)
    ws,         \* LWSClient (lws_client.h:70-96)
    lib,        \* libwebsockets: the connection behind m_wsi, writable request
    cl,         \* raw-socket ArchipelagoClient (archipelago_client.h:106-141)
    impl,       \* raw-socket ArchipelagoClient::Impl (archipelago_client.cpp:220-233)
    rt,         \* the read thread of Impl and the server end of its socket
    pc,         \* raw-socket caller: "idle", blocked inside Connect / Disconnect,
                \* or inside send() for a message ("SendMessage") or for the
                \* close frame ("Close")
    last,       \* history: the operation that ran last, the state it ran in, its
                \* result, and the shape of the complete message it received
    sent,       \* history: packets the send path accepted during the last operation
    cb,         \* history: item callbacks of the last operation, counted
    accepted,   \* history: location ids of accepted LocationChecks since the last clear
    delivered,  \* history: absolute item indexes notified since the last disconnect
    scen,       \* history: progress along the quick-connect sequence of ap_quick
                \* (1..5) or along the overlapping item replay (6, 7)
    rooms,      \* history: the RoomInfo packets the last operation handled
    checks,     \* history: the run of sendLocationCheck calls for one id
    trace,      \* history of the raw-socket client: messages in decoding order
                \* not yet handled, messages the last operation handled,
                \* SendPacket calls not yet flushed, the calls the last pump
                \* flushed, the frames the last operation wrote, the message
                \* callbacks the last operation made
    net,        \* the server end of the raw socket: bytes sent and not yet
                \* received, sizes of the reads that took the others, messages
                \* sent, bytes sent in one piece with the handshake response
    codec,      \* a payload and mask key taken through the frame encoder and
                \* the frame decoder
    crashed     \* the process faulted (an outcome of undefined behaviour)

vars == <<client, ap, ws, lib, cl, impl, rt, pc, last, sent, cb, accepted,
          delivered, scen, rooms, checks, trace, net, codec, crashed>>

lwsVars == <<ap, ws, lib, accepted, delivered, scen, rooms, checks>>
rawVars == <<cl, impl, rt, pc, trace, net>>

-----------------------------------------------------------------------------
(* Bounds of the exploration *)

MaxQueue == 1        \* entries of an outgoing queue
MaxPackets == 2      \* packets in one inbound message
MaxIndex == 1        \* starting index of a ReceivedItems packet
MaxItems == 3        \* items of a ReceivedItems packet
MaxIncoming == 1     \* entries of the raw-socket incoming queue
MaxChecks == 2       \* calls of sendLocationCheck counted in one run
MaxPending == 2      \* entries of the raw-socket incoming queue, pump environment
MaxOutgoing == 2     \* entries of the raw-socket outgoing queue, pump environment
MaxPayload == 2      \* bytes of a short payload
MaxFrames == 2       \* frames the server sends byte by byte
MaxHeaders == 2      \* header lines of a handshake response
MaxPing == 3         \* bytes of a short Ping payload

(* Program constants *)

DefaultPort == 38281
NoSlot == 0 - 1
Absent == 0 - 1000   \* a JSON member that is not present
Uninit == 0 - 2000   \* a member no constructor initialises

NULL == "null"

-----------------------------------------------------------------------------
(* JSON values on the wire.  A packet is a JSON object; members the code   *)
(* never reads are left out, a member that is not present is Absent.       *)

Pkt(cmd) ==
    [cmd |-> cmd, name |-> "", password |-> "", slot |-> Absent, team |-> Absent,
     index |-> Absent, items |-> Absent, locations |-> <<>>, text |-> ""]

RoomInfoPkt == Pkt("RoomInfo")
ConnectedPkt(slot, team) == [Pkt("Connected") EXCEPT !.slot = slot, !.team = team]
ConnectionRefusedPkt == Pkt("ConnectionRefused")
ReceivedItemsPkt(index, n) == [Pkt("ReceivedItems") EXCEPT !.index = index, !.items = n]
PrintJSONPkt == Pkt("PrintJSON")
BouncedPkt == Pkt("Bounced")
LocationInfoPkt == Pkt("LocationInfo")
RoomUpdatePkt == Pkt("RoomUpdate")
\* array elements that are not packets
NotObjectElem == Pkt("<not an object>")
NoCmdElem == Pkt("<object without cmd>")
NonStringCmdElem == Pkt("<cmd is not a string>")

\* a complete inbound text: not JSON at all, JSON that is no array, or an array
GarbageMsg == [kind |-> "garbage", elems |-> <<>>]
NonArrayMsg == [kind |-> "nonarray", elems |-> <<>>]
ArrayMsg(elems) == [kind |-> "array", elems |-> elems]

SeqsUpTo(S, n) == UNION {[1..k -> S] : k \in 0..n}

-----------------------------------------------------------------------------
(* LWS-based client: the machine a handler runs on.  sent and cb collect   *)
(* what the handler did to the outside, rooms what handleRoomInfo met and  *)
(* did, ret is what it returned, threw says a json::exception is           *)
(* propagating.                                                            *)

LM == [ap |-> ap, ws |-> ws, lib |-> lib, sent |-> <<>>, cb |-> <<>>,
       dlv |-> delivered, rooms |-> {}, chk |-> checks, heard |-> "none",
       ret |-> "void", threw |-> FALSE]

(* LWSClient *)

ConnectOutcomes == {"ok", "no_context", "no_wsi"}

LWSClient_connect(m, host, port, use_ssl, outcome) ==
    IF m.ws.m_connected
    THEN [m EXCEPT !.ret = "false"]
    ELSE LET m1 == [m EXCEPT !.ws.m_host = host, !.ws.m_port = port,
                             !.ws.m_useSSL = use_ssl, !.ws.m_shouldStop = FALSE]
         IN CASE outcome = "no_context" ->
                     [m1 EXCEPT !.ws.m_context = NULL, !.ret = "false"]
              [] outcome = "no_wsi" ->
                     [m1 EXCEPT !.ws.m_wsi = NULL, !.ws.m_context = NULL,
                                !.lib.conn = "none", !.lib.writable = FALSE,
                                !.ret = "false"]
              [] OTHER ->
                     [m1 EXCEPT !.ws.m_context = "ctx", !.ws.m_wsi = "wsi",
                                !.lib.conn = "pending", !.lib.writable = FALSE,
                                !.ret = "true"]

\* rx_buffer is the per-connection receive buffer, which no code path clears
\* when a connection goes away: "partial" holds the first fragments of the
\* message in flight, "stale" holds fragments whose connection is gone
Orphaned(buf) == IF buf = "empty" THEN "empty" ELSE "stale"

\* lws_set_timeout on a wsi that libwebsockets has already freed
DanglingWsi(m) == m.ws.m_wsi # NULL /\ m.lib.conn \in {"failed", "closed"}

\* variant: m_wsi is kept after lws_set_timeout
LWSClient_disconnect_keeps_wsi(m) ==
    [m EXCEPT !.ws.m_shouldStop = TRUE,
              !.ws.m_context = NULL,
              !.lib.conn = IF m.ws.m_context # NULL THEN "none" ELSE @,
              !.lib.writable = IF m.ws.m_context # NULL THEN FALSE ELSE @,
              !.ws.rx_buffer = Orphaned(@),
              !.ws.m_connected = FALSE,
              !.ws.m_sendQueue = <<>>]

LWSClient_disconnect(m) ==
    [m EXCEPT !.ws.m_shouldStop = TRUE,
              !.ws.m_wsi = NULL,
              !.ws.m_context = NULL,
              !.lib.conn = IF m.ws.m_context # NULL THEN "none" ELSE @,
              !.lib.writable = IF m.ws.m_context # NULL THEN FALSE ELSE @,
              !.ws.rx_buffer = Orphaned(@),
              !.ws.m_connected = FALSE,
              !.ws.m_sendQueue = <<>>]

LWSClient_sendMessage(m, message) ==
    IF ~m.ws.m_connected
    THEN [m EXCEPT !.ret = "false"]
    ELSE [m EXCEPT !.ws.m_sendQueue = Append(@, message),
                   !.lib.writable = IF m.ws.m_wsi # NULL THEN TRUE ELSE @,
                   !.sent = Append(@, message),
                   !.ret = "true"]

(* ArchipelagoClient: outbound *)

sendPacket(m, packet) ==
    [LWSClient_sendMessage(m, <<packet>>) EXCEPT !.ret = m.ret]

\* variant: the name is a fixed placeholder, as in the raw-socket client
sendConnectPacket_placeholder(m) ==
    sendPacket(m, [Pkt("Connect") EXCEPT !.name = "Player",
                                         !.password = m.ap.m_password])

sendConnectPacket(m) ==
    sendPacket(m, [Pkt("Connect") EXCEPT !.name = m.ap.m_slotName,
                                         !.password = m.ap.m_password])

\* variant: the endpoint is stored before the state is looked at
connect_stores_first(m, host, port, o1, o2) ==
    LET m0 == [m EXCEPT !.ap.m_host = host, !.ap.m_port = port]
    IN IF m.ap.m_state # "Disconnected"
       THEN [m0 EXCEPT !.ret = "false"]
       ELSE LET m1 == [m0 EXCEPT !.ap.m_state = "Connecting"]
                m2 == LWSClient_connect(m1, host, port, TRUE, o1)
                m3 == LWSClient_connect(m2, host, port, FALSE, o2)
            IN IF m2.ret = "true" THEN m2
               ELSE IF m3.ret = "true" THEN m3
               ELSE [m3 EXCEPT !.ap.m_state = "Error", !.ret = "false"]

connect(m, host, port, o1, o2) ==
    IF m.ap.m_state # "Disconnected"
    THEN [m EXCEPT !.ret = "false"]
    ELSE LET m1 == [m EXCEPT !.ap.m_host = host, !.ap.m_port = port,
                             !.ap.m_state = "Connecting"]
             m2 == LWSClient_connect(m1, host, port, TRUE, o1)
             m3 == LWSClient_connect(m2, host, port, FALSE, o2)
         IN IF m2.ret = "true" THEN m2
            ELSE IF m3.ret = "true" THEN m3
            ELSE [m3 EXCEPT !.ap.m_state = "Error", !.ret = "false"]

disconnect(m) ==
    IF m.ap.m_state = "Disconnected"
    THEN m
    ELSE [LWSClient_disconnect(m) EXCEPT !.ap.m_state = "Disconnected",
                                         !.ap.m_checkedLocations = {},
                                         !.ap.m_lastReceivedIndex = 0,
                                         !.ap.m_roomInfo = NULL]

authenticate(m, slotName, password) ==
    LET m1 == [m EXCEPT !.ap.m_slotName = slotName, !.ap.m_password = password]
    IN IF m1.ap.m_state = "Connected" THEN sendConnectPacket(m1) ELSE m1

SeqToSet(q) == {q[i] : i \in 1..Len(q)}

\* variant: the ids are recorded whatever the state
sendLocationChecks_unguarded(m, locationIds) ==
    sendPacket([m EXCEPT !.ap.m_checkedLocations = @ \cup SeqToSet(locationIds)],
               [Pkt("LocationChecks") EXCEPT !.locations = locationIds])

\* variant: a packet whose ids are all recorded already is not sent again
sendLocationChecks_dedup(m, locationIds) ==
    IF m.ap.m_state # "Authenticated"
    THEN m
    ELSE IF SeqToSet(locationIds) \subseteq m.ap.m_checkedLocations
    THEN m
    ELSE sendPacket([m EXCEPT !.ap.m_checkedLocations = @ \cup SeqToSet(locationIds)],
                    [Pkt("LocationChecks") EXCEPT !.locations = locationIds])

sendLocationChecks(m, locationIds) ==
    IF m.ap.m_state # "Authenticated"
    THEN m
    ELSE sendPacket([m EXCEPT !.ap.m_checkedLocations = @ \cup SeqToSet(locationIds)],
                    [Pkt("LocationChecks") EXCEPT !.locations = locationIds])

sendLocationCheck(m, locationId) == sendLocationChecks(m, <<locationId>>)

setGameStatus(m, status) ==
    IF m.ap.m_state # "Authenticated"
    THEN m
    ELSE sendPacket(m, [Pkt("StatusUpdate") EXCEPT !.text = status])

sendChat(m, message) ==
    IF m.ap.m_state # "Authenticated"
    THEN m
    ELSE sendPacket(m, [Pkt("Say") EXCEPT !.text = message])

(* ArchipelagoClient: accessors *)

getState == ap.m_state
getSlotNumber == ap.m_slotNumber

(* ArchipelagoClient: transport callbacks *)

onWebSocketConnected(m) == [m EXCEPT !.ap.m_state = "Connected"]

onWebSocketDisconnected(m) == [m EXCEPT !.ap.m_state = "Disconnected"]

onWebSocketError(m) == [m EXCEPT !.ap.m_state = "Error"]

triggerError(m) == onWebSocketError(m)

(* ArchipelagoClient: inbound packets *)

\* the Connect packets among those a handler sent, given what had been sent
\* when it began
ConnectsSince(before, after) ==
    Cardinality({i \in (Len(before) + 1)..Len(after) : after[i][1].cmd = "Connect"})

\* history of one RoomInfo: the state it was handled in, whether a slot name
\* was stored, and the number of Connect packets handling it sent
Observed(m, after) ==
    [after EXCEPT !.rooms = @ \cup {[state |-> m.ap.m_state,
                                     named |-> m.ap.m_slotName # "",
                                     replies |-> ConnectsSince(m.sent, after.sent)]}]

\* variant: the Connect packet is sent whether or not a slot name is stored
handleRoomInfo_unconditional(m, packet) ==
    Observed(m, sendConnectPacket([m EXCEPT !.ap.m_roomInfo = "RoomInfo"]))

handleRoomInfo(m, packet) ==
    LET m1 == [m EXCEPT !.ap.m_roomInfo = "RoomInfo"]
    IN Observed(m, IF m1.ap.m_slotName # "" THEN sendConnectPacket(m1) ELSE m1)

handleConnected(m, packet) ==
    [m EXCEPT !.ap.m_state = "Authenticated",
              !.ap.m_slotNumber = IF packet.slot # Absent THEN packet.slot ELSE @,
              !.ap.m_teamNumber = IF packet.team # Absent THEN packet.team ELSE @,
              !.ap.m_lastHeartbeat = "recent"]

handleConnectionRefused(m, packet) == [m EXCEPT !.ap.m_state = "Error"]

\* the callback invocations of the item loop: one per item, in order, each
\* recorded with its absolute index, the cursor at the time and whether that
\* index had been notified before
ItemCallbacks(m, index, n) ==
    IF m.ap.m_itemReceivedCallback
    THEN [i \in 1..n |-> <<index + i - 1, m.ap.m_lastReceivedIndex,
                           (index + i - 1) \in m.dlv>>]
    ELSE <<>>

Notified(calls) == {calls[i][1] : i \in 1..Len(calls)}

\* the calls of one operation counted: all of them, those for an index below
\* the cursor, those for an index notified before
Tally(calls) ==
    [n |-> Len(calls),
     below |-> Cardinality({i \in 1..Len(calls) : calls[i][1] < calls[i][2]}),
     again |-> Cardinality({i \in 1..Len(calls) : calls[i][3]})]

handleReceivedItems(m, packet) ==
    IF packet.items = Absent
    THEN m
    ELSE LET index == IF packet.index # Absent THEN packet.index ELSE 0
         IN [m EXCEPT !.cb = @ \o ItemCallbacks(m, index, packet.items),
                      !.dlv = @ \cup Notified(ItemCallbacks(m, index, packet.items)),
                      !.ap.m_lastReceivedIndex = index + packet.items]

handleLocationInfo(m, packet) == m
handleRoomUpdate(m, packet) == m
handlePrintJSON(m, packet) == m
handleBounced(m, packet) == m

\* one turn of the loop body of onWebSocketMessage
dispatchPacket(m, packet) ==
    IF packet.cmd \in {"<not an object>", "<object without cmd>"} THEN m
    ELSE IF packet.cmd = "<cmd is not a string>" THEN [m EXCEPT !.threw = TRUE]
    ELSE IF packet.cmd = "RoomInfo" THEN handleRoomInfo(m, packet)
    ELSE IF packet.cmd = "Connected" THEN handleConnected(m, packet)
    ELSE IF packet.cmd = "ConnectionRefused" THEN handleConnectionRefused(m, packet)
    ELSE IF packet.cmd = "ReceivedItems" THEN handleReceivedItems(m, packet)
    ELSE IF packet.cmd = "LocationInfo" THEN handleLocationInfo(m, packet)
    ELSE IF packet.cmd = "RoomUpdate" THEN handleRoomUpdate(m, packet)
    ELSE IF packet.cmd = "PrintJSON" THEN handlePrintJSON(m, packet)
    ELSE IF packet.cmd = "Bounced" THEN handleBounced(m, packet)
    ELSE m

RECURSIVE forEachPacket(_, _)
forEachPacket(m, elems) ==
    IF elems = <<>> \/ m.threw THEN m
    ELSE forEachPacket(dispatchPacket(m, Head(elems)), Tail(elems))

onWebSocketMessage(m, message) ==
    IF message.kind # "array" THEN m ELSE forEachPacket(m, message.elems)

\* text is what the receive buffer holds when the final fragment arrived
processReceivedData(m, text) ==
    IF text.kind = "garbage"
    THEN triggerError(m)
    ELSE LET m1 == onWebSocketMessage(m, text)
         IN IF m1.threw THEN triggerError([m1 EXCEPT !.threw = FALSE]) ELSE m1

WriteOutcomes == {"written", "failed"}
HugeText == "<text of 64 KiB or more>"
TooLarge(message) == \E i \in 1..Len(message) : message[i].text = HugeText

processOutgoingQueue(m, outcome) ==
    IF m.ws.m_sendQueue # <<>> /\ m.ws.m_wsi # NULL
    THEN IF ~TooLarge(Head(m.ws.m_sendQueue))
         THEN IF outcome = "failed"
              THEN triggerError(m)
              ELSE [m EXCEPT !.ws.m_sendQueue = Tail(@),
                             !.lib.writable = (Tail(m.ws.m_sendQueue) # <<>>)]
         ELSE [triggerError(m) EXCEPT !.ws.m_sendQueue = Tail(@)]
    ELSE m

(* LWSClient::websocketCallback, one operator per reason *)

cbEstablished(m) ==
    onWebSocketConnected([m EXCEPT !.ws.established = TRUE,
                                   !.ws.m_connected = TRUE,
                                   !.lib.conn = "established"])

cbConnectionError(m) ==
    [triggerError(m) EXCEPT !.ws.m_connected = FALSE, !.lib.conn = "failed"]

\* LWS_CALLBACK_CLOSED followed by LWS_CALLBACK_WSI_DESTROY
cbClosed(m) ==
    [onWebSocketDisconnected([m EXCEPT !.ws.m_connected = FALSE])
        EXCEPT !.ws.established = FALSE, !.ws.rx_buffer = Orphaned(@),
               !.lib.conn = "closed", !.lib.writable = FALSE]

\* what a complete inbound text is: no JSON, JSON that is no array, an array
\* none of whose elements is an object with a cmd member, or packets
Shape(text) ==
    IF text.kind = "garbage" THEN "invalid"
    ELSE IF text.kind = "nonarray" THEN "nonarray"
    ELSE IF /\ text.elems # <<>>
            /\ \A i \in 1..Len(text.elems) :
                  text.elems[i].cmd \in {"<not an object>", "<object without cmd>"}
    THEN "nocmd"
    ELSE "packets"

\* LWS_CALLBACK_CLIENT_RECEIVE; final says no payload remains and this is
\* the final fragment, text is the message the server is sending
cbReceive(m, final, text) ==
    IF ~final
    THEN [m EXCEPT !.ws.rx_buffer = IF @ = "empty" THEN "partial" ELSE @]
    ELSE LET complete == IF m.ws.rx_buffer = "stale" THEN GarbageMsg ELSE text
         IN processReceivedData([m EXCEPT !.ws.rx_buffer = "empty",
                                          !.heard = Shape(complete)], complete)

cbWriteable(m, outcome) ==
    processOutgoingQueue([m EXCEPT !.lib.writable = FALSE], outcome)

\* the heartbeat part of update(), after service()
heartbeat(m) ==
    IF m.ap.m_state = "Authenticated" /\ m.ap.m_lastHeartbeat = "old"
    THEN [sendPacket(m, Pkt("Bounce")) EXCEPT !.ap.m_lastHeartbeat = "recent"]
    ELSE m

\* LWSClient::service runs lws_service only with a context and no stop request
ServiceRuns(m) == m.ws.m_context # NULL /\ ~m.ws.m_shouldStop

-----------------------------------------------------------------------------
(* Initial state: both clients freshly constructed *)

ApInit ==
    [m_state |-> "Disconnected", m_host |-> "", m_port |-> DefaultPort,
     m_slotName |-> "", m_password |-> "", m_slotNumber |-> NoSlot,
     m_teamNumber |-> 0, m_checkedLocations |-> {}, m_lastReceivedIndex |-> 0,
     m_roomInfo |-> NULL, m_itemReceivedCallback |-> FALSE,
     m_lastHeartbeat |-> "old"]

WsInit ==
    [m_context |-> NULL, m_wsi |-> NULL, m_connected |-> FALSE,
     m_shouldStop |-> FALSE, m_host |-> "", m_port |-> Uninit,
     m_useSSL |-> "uninit", m_sendQueue |-> <<>>, established |-> FALSE,
     rx_buffer |-> "empty"]

LibInit == [conn |-> "none", writable |-> FALSE]

-----------------------------------------------------------------------------
(* Actions of the LWS-based client.  I is the record of input sets the     *)
(* environment draws from.                                                 *)

Off == 0 - 1
Advance(k) == IF scen = k - 1 THEN k ELSE Off
Hold == scen

LocationsOf(msgs) ==
    UNION {SeqToSet(msgs[i][1].locations) : i \in {j \in 1..Len(msgs) :
                                              msgs[j][1].cmd = "LocationChecks"}}

\* the run of sendLocationCheck calls made while Authenticated for one id
\* since the set was last cleared: the calls, and the LocationChecks packets
\* for that id the send path accepted during them
NoChecks == [id |-> Absent, calls |-> 0, packets |-> 0]

ChecksOf(id, msgs) ==
    Cardinality({i \in 1..Len(msgs) : /\ msgs[i][1].cmd = "LocationChecks"
                                      /\ msgs[i][1].locations = <<id>>})

Counted(id, m) ==
    IF m.ap.m_state # "Authenticated"
    THEN m
    ELSE [m EXCEPT !.chk = [id |-> id,
                            calls |-> (IF m.chk.id = id THEN m.chk.calls ELSE 0) + 1,
                            packets |-> (IF m.chk.id = id THEN m.chk.packets ELSE 0)
                                            + ChecksOf(id, m.sent)]]

\* commit the machine m a handler produced as the effect of operation op
LStep(op, m, sc) ==
    /\ ~crashed
    /\ client = "lws"
    /\ Len(m.ws.m_sendQueue) <= MaxQueue
    /\ ap' = m.ap
    /\ ws' = m.ws
    /\ lib' = m.lib
    /\ last' = [op |-> op, pre |-> ap.m_state, ret |-> m.ret, heard |-> m.heard]
    /\ sent' = m.sent
    /\ cb' = Tally(m.cb)
    /\ accepted' = IF op = "disconnect" /\ ap.m_state # "Disconnected"
                   THEN {} ELSE accepted \cup LocationsOf(m.sent)
    /\ delivered' = IF m.ap.m_state = "Disconnected" THEN {} ELSE m.dlv
    /\ scen' = sc
    /\ rooms' = m.rooms
    /\ checks' = IF op = "disconnect" /\ ap.m_state # "Disconnected"
                 THEN NoChecks ELSE m.chk
    /\ UNCHANGED <<client, rawVars, codec, crashed>>

ApConnect(I) ==
    \E hp \in I.conn, o1 \in I.outcome, o2 \in I.outcome :
        LET m == connect(LM, hp[1], hp[2], o1, o2)
        IN LStep("connect", m, IF m.ret = "true" THEN Advance(2) ELSE Off)

ApDisconnect ==
    LStep("disconnect", disconnect(LM), Off)

\* disconnect() reaching lws_set_timeout with a freed wsi may also fault
ApDisconnectFaults ==
    /\ ~crashed
    /\ client = "lws"
    /\ ap.m_state # "Disconnected"
    /\ DanglingWsi(LM)
    /\ crashed' = TRUE
    /\ last' = [op |-> "fault", pre |-> ap.m_state, ret |-> "void", heard |-> "none"]
    /\ sent' = <<>>
    /\ cb' = Tally(<<>>)
    /\ scen' = Off
    /\ rooms' = {}
    /\ UNCHANGED <<client, ap, ws, lib, accepted, delivered, checks, rawVars, codec>>

ApAuthenticate(I) ==
    \E a \in I.auth :
        LStep("authenticate", authenticate(LM, a[1], a[2]),
              IF a[1] = "Nova" THEN Advance(1) ELSE Off)

ApSendLocationCheck(I) ==
    \E id \in I.loc :
        /\ checks.calls < MaxChecks
        /\ LStep("sendLocationCheck", Counted(id, sendLocationCheck(LM, id)), Off)

ApSendLocationChecks(I) ==
    \E ids \in I.locs : LStep("sendLocationChecks", sendLocationChecks(LM, ids), Off)

ApSetGameStatus(I) ==
    \E st \in I.status : LStep("setGameStatus", setGameStatus(LM, st), Off)

ApSendChat(I) ==
    \E t \in I.chat : LStep("sendChat", sendChat(LM, t), Off)

ApSetItemReceivedCallback ==
    /\ ~ap.m_itemReceivedCallback
    /\ LStep("setItemReceivedCallback",
             [LM EXCEPT !.ap.m_itemReceivedCallback = TRUE], Off)

\* update() in which lws_service has no event to deliver
ApUpdateIdle ==
    LStep("update", heartbeat(LM), Hold)

ApUpdateEstablished ==
    /\ ServiceRuns(LM) /\ lib.conn = "pending"
    /\ LStep("update:established", heartbeat(cbEstablished(LM)), Advance(3))

ApUpdateConnectionError ==
    /\ ServiceRuns(LM) /\ lib.conn = "pending"
    /\ LStep("update:connection_error", heartbeat(cbConnectionError(LM)), Off)

ApUpdateClosed ==
    /\ ServiceRuns(LM) /\ lib.conn = "established"
    /\ LStep("update:closed", heartbeat(cbClosed(LM)), Off)

\* a session with the item callback set that has been sent no item yet
FreshItems ==
    ap.m_itemReceivedCallback /\ delivered = {} /\ ap.m_lastReceivedIndex = 0

ApUpdateReceive(I) ==
    /\ ServiceRuns(LM) /\ lib.conn = "established"
    /\ \E text \in I.msgs :
        LStep("update:receive", heartbeat(cbReceive(LM, TRUE, text)),
              IF ws.rx_buffer # "empty" THEN Off
              ELSE IF text = ArrayMsg(<<RoomInfoPkt>>) THEN Advance(4)
              ELSE IF text = ArrayMsg(<<ConnectedPkt(3, 0)>>) THEN Advance(5)
              ELSE IF text = ArrayMsg(<<ReceivedItemsPkt(0, 3)>>)
              THEN (IF FreshItems THEN 6 ELSE Off)
              ELSE IF text = ArrayMsg(<<ReceivedItemsPkt(1, 3)>>) THEN Advance(7)
              ELSE Off)

ApUpdateReceiveFragment ==
    /\ ServiceRuns(LM) /\ lib.conn = "established"
    /\ LStep("update:fragment", heartbeat(cbReceive(LM, FALSE, GarbageMsg)), Off)

ApUpdateWriteable(I) ==
    /\ ServiceRuns(LM) /\ lib.conn = "established" /\ lib.writable
    /\ \E o \in I.write :
        LStep("update:writeable", heartbeat(cbWriteable(LM, o)),
              IF o = "written" THEN Hold ELSE Off)

\* thirty seconds go by without a heartbeat
ApTimePasses ==
    /\ ap.m_lastHeartbeat = "recent"
    /\ LStep("time", [LM EXCEPT !.ap.m_lastHeartbeat = "old"], Hold)

-----------------------------------------------------------------------------
(* WebSocket framing of the raw-socket client (archipelago_client.cpp).     *)
(* A byte is a number in 0..255, a buffer a sequence of bytes; offsets     *)
(* count from 0 as in the code.                                            *)

RECURSIVE Xor(_, _)
Xor(a, b) ==
    IF a = 0 /\ b = 0 THEN 0
    ELSE (((a % 2) + (b % 2)) % 2) + 2 * Xor(a \div 2, b \div 2)

\* the number a run of length bytes stands for; a number of 2^24 or more,
\* which exceeds every buffer considered, is given as 2^24
RECURSIVE BigEndian(_)
BigEndian(bytes) ==
    IF bytes = <<>> THEN 0
    ELSE IF Len(bytes) > 3 /\ Head(bytes) # 0 THEN 256 * 256 * 256
    ELSE IF Len(bytes) > 3 THEN BigEndian(Tail(bytes))
    ELSE bytes[Len(bytes)] + 256 * BigEndian(SubSeq(bytes, 1, Len(bytes) - 1))

\* len >> (8 * n)
RECURSIVE ShiftedBytes(_, _)
ShiftedBytes(len, n) == IF n = 0 THEN len ELSE ShiftedBytes(len \div 256, n - 1)

\* what DecodeFrame leaves behind: its result, the offset, which it takes
\* by reference, and the frame
Undecoded(offset) ==
    [ok |-> FALSE, offset |-> offset,
     frame |-> [fin |-> FALSE, opcode |-> 0, payload |-> <<>>]]

DecodeFrame(data, offset) ==
    IF offset >= Len(data) \/ Len(data) - offset < 2
    THEN Undecoded(offset)
    ELSE LET byte1 == data[offset + 1]
             byte2 == data[offset + 2]
             masked == byte2 \div 128 = 1
             len7 == byte2 % 128
             short == ~(len7 = 126 /\ Len(data) - (offset + 2) < 2)
                      /\ ~(len7 = 127 /\ Len(data) - (offset + 2) < 8)
             payload_len ==
                 IF len7 = 126 THEN BigEndian(SubSeq(data, offset + 3, offset + 4))
                 ELSE IF len7 = 127 THEN BigEndian(SubSeq(data, offset + 3, offset + 10))
                 ELSE len7
             afterLen == offset + 2 + (IF len7 = 126 THEN 2 ELSE IF len7 = 127 THEN 8 ELSE 0)
             afterMask == IF masked THEN afterLen + 4 ELSE afterLen
         IN IF ~short THEN Undecoded(offset + 2)
            ELSE IF masked /\ Len(data) - afterLen < 4 THEN Undecoded(afterLen)
            ELSE IF Len(data) - afterMask < payload_len THEN Undecoded(afterMask)
            ELSE [ok |-> TRUE, offset |-> afterMask + payload_len,
                  frame |-> [fin |-> byte1 \div 128 = 1, opcode |-> byte1 % 16,
                             payload |-> SubSeq(data, afterMask + 1,
                                                afterMask + payload_len)]]

\* mask is the key the random generator produced
EncodeWebSocketFrame(message, mask) ==
    LET len == Len(message)
        head == IF len <= 125 THEN <<129, 128 + len>>
                ELSE IF len <= 65535
                THEN <<129, 128 + 126, (len \div 256) % 256, len % 256>>
                ELSE <<129, 128 + 127>>
                         \o [i \in 1..8 |-> ShiftedBytes(len, 8 - i) % 256]
    IN head \o mask \o [i \in 1..len |-> Xor(message[i], mask[((i - 1) % 4) + 1])]

-----------------------------------------------------------------------------
(* Raw-socket client (archipelago_client.cpp).  A frame is what           *)
(* WebSocketFrameDecoder hands to HandleFrame: an opcode and a payload,    *)
(* the payload of a text frame being the message text.                     *)

Frame(opcode, payload) == [opcode |-> opcode, payload |-> payload]
TextFrame(text) == Frame("TEXT", text)
PingFrame == Frame("PING", NonArrayMsg)
CloseFrame == Frame("CLOSE", NonArrayMsg)
BinaryFrame == Frame("BINARY", NonArrayMsg)

TraceInit ==
    [decoded |-> <<>>, handled |-> <<>>, calls |-> <<>>, order |-> <<>>,
     written |-> <<>>, fired |-> 0]

NetInit == [wire |-> <<>>, fed |-> <<>>, msgs |-> <<>>, head |-> <<>>, response |-> <<>>]

RM == [cl |-> cl, impl |-> impl, rt |-> rt, net |-> net, sent |-> <<>>, cb |-> <<>>,
       trace |-> [trace EXCEPT !.handled = <<>>, !.order = <<>>, !.written = <<>>,
                               !.fired = 0],
       ret |-> "void", blocked |-> FALSE, fault |-> FALSE]

ClInit ==
    [m_status |-> "Disconnected", m_host |-> "", m_port |-> DefaultPort,
     m_slot |-> "", m_slotId |-> NoSlot, m_team |-> 0,
     m_checkedLocations |-> {}, m_outgoingQueue |-> <<>>,
     m_lastReceivedIndex |-> 0, m_connectionTimeout |-> "passed",
     m_itemReceivedCallback |-> FALSE, m_messageCallback |-> FALSE]

ImplInit ==
    [m_socket |-> "INVALID", m_running |-> FALSE, m_connected |-> FALSE,
     m_incomingMessages |-> <<>>, m_initialData |-> <<>>,
     m_host |-> "", m_port |-> Uninit, m_readThread |-> "none"]

\* the read thread: where it is ("start", "loop", inside send() for a Pong:
\* "pong", or "none") and its frameBuffer
RtInit == [at |-> "none", frameBuffer |-> <<>>]

(* Impl *)

ImplConnectOutcomes ==
    {"ok", "socket_failed", "resolve_failed", "connect_failed",
     "handshake_failed", "thread_failed"}

\* Impl::Connect up to and including the start of the read thread; with
\* outcome "ok" the caller then sleeps and returns m_connected (ConnectReturn)
Impl_Connect(m, host, port, outcome, initial) ==
    LET m1 == [m EXCEPT !.impl.m_host = host, !.impl.m_port = port]
    IN CASE outcome \in {"socket_failed", "resolve_failed", "connect_failed",
                         "handshake_failed"} ->
                [m1 EXCEPT !.impl.m_socket = "INVALID", !.ret = "false"]
         [] outcome = "thread_failed" ->
                [m1 EXCEPT !.impl.m_initialData = IF initial # <<>> THEN initial ELSE @,
                           !.impl.m_connected = TRUE,
                           !.impl.m_socket = "INVALID",
                           !.impl.m_running = FALSE,
                           !.ret = "false"]
         [] OTHER ->
                [m1 EXCEPT !.impl.m_initialData = IF initial # <<>> THEN initial ELSE @,
                           !.impl.m_connected = TRUE,
                           !.impl.m_socket = "open",
                           !.impl.m_running = TRUE,
                           !.impl.m_readThread = "running",
                           !.rt.at = "start",
                           !.blocked = TRUE]

\* Impl::Disconnect up to the join; blocked says the join has to wait
Impl_Disconnect(m) ==
    LET m1 == [m EXCEPT !.impl.m_running = FALSE, !.impl.m_socket = "INVALID"]
    IN IF m.impl.m_readThread = "running"
       THEN [m1 EXCEPT !.blocked = TRUE]
       ELSE [m1 EXCEPT !.impl.m_readThread = "none", !.impl.m_connected = FALSE]

\* the rest of Impl::Disconnect once the read thread has ended
Impl_Disconnect_joined(m) ==
    [m EXCEPT !.impl.m_readThread = "none", !.impl.m_connected = FALSE]

Impl_SendMessage(m, message) ==
    IF ~m.impl.m_connected \/ m.impl.m_socket = "INVALID"
    THEN m
    ELSE [m EXCEPT !.trace.written = Append(@, message)]

Impl_GetIncomingMessages(m) == [m EXCEPT !.impl.m_incomingMessages = <<>>]

\* variant: a text message is put at the front of the incoming queue
Impl_HandleFrame_front(m, frame) ==
    CASE frame.opcode = "TEXT" ->
             [m EXCEPT !.impl.m_incomingMessages = <<frame.payload>> \o @]
      [] frame.opcode = "PING" -> m
      [] frame.opcode = "CLOSE" -> [m EXCEPT !.impl.m_running = FALSE]
      [] OTHER -> m

Impl_HandleFrame(m, frame) ==
    CASE frame.opcode = "TEXT" ->
             [m EXCEPT !.impl.m_incomingMessages = Append(@, frame.payload)]
      [] frame.opcode = "PING" -> m
      [] frame.opcode = "CLOSE" -> [m EXCEPT !.impl.m_running = FALSE]
      [] OTHER -> m

\* history: a text frame has been decoded off the wire
Decoded(m, frame) ==
    IF frame.opcode = "TEXT"
    THEN [m EXCEPT !.trace.decoded = Append(@, frame.payload)]
    ELSE m

RECURSIVE forEachFrame(_, _)
forEachFrame(m, frames) ==
    IF frames = <<>> THEN m
    ELSE forEachFrame(Impl_HandleFrame(Decoded(m, Head(frames)), Head(frames)),
                      Tail(frames))

\* the read thread ends: every way out of ReadThread clears m_connected
ReadThread_exit(m) ==
    [m EXCEPT !.impl.m_connected = FALSE, !.impl.m_readThread = "exited",
              !.rt.at = "none", !.rt.frameBuffer = <<>>]

\* from the entry of ReadThread to the top of the read loop
ReadThread_enter(m) ==
    IF m.impl.m_socket = "INVALID"
    THEN ReadThread_exit(m)
    ELSE [m EXCEPT !.rt.frameBuffer = m.impl.m_initialData,
                   !.impl.m_initialData = <<>>,
                   !.rt.at = "loop"]

\* variant: the loop condition looks at the socket only
ReadThread_loop_deaf(m, received, frames) ==
    IF m.impl.m_socket = "INVALID"
    THEN ReadThread_exit(m)
    ELSE IF received = "wouldblock"
    THEN m
    ELSE IF received # "data"
    THEN ReadThread_exit(m)
    ELSE [forEachFrame(m, m.rt.frameBuffer \o frames) EXCEPT !.rt.frameBuffer = <<>>]

\* one turn of the read loop; received is what recv returned ("data", "eof",
\* "error", or "wouldblock" when the server has sent nothing) and frames the
\* frames the bytes of a "data" complete
RecvResults == {"data", "eof", "error"}

ReadThread_loop(m, received, frames) ==
    IF ~(m.impl.m_running /\ m.impl.m_socket # "INVALID")
    THEN ReadThread_exit(m)
    ELSE IF received = "wouldblock"
    THEN m
    ELSE IF received # "data"
    THEN ReadThread_exit(m)
    ELSE [forEachFrame(m, m.rt.frameBuffer \o frames) EXCEPT !.rt.frameBuffer = <<>>]

(* The read loop on bytes: frameBuffer holds the bytes received and not    *)
(* yet removed                                                             *)

OpName(opcode) ==
    CASE opcode = 1 -> "TEXT"
      [] opcode = 2 -> "BINARY"
      [] opcode = 8 -> "CLOSE"
      [] opcode = 9 -> "PING"
      [] opcode = 10 -> "PONG"
      [] OTHER -> "CONTINUATION"

\* the decode loop; gives the machine and the offset the loop ended with
RECURSIVE decodeFrames(_, _, _)
decodeFrames(m, frameBuffer, offset) ==
    IF offset >= Len(frameBuffer)
    THEN [m |-> m, offset |-> offset]
    ELSE LET r == DecodeFrame(frameBuffer, offset)
             frame == Frame(OpName(r.frame.opcode), r.frame.payload)
         IN IF r.ok
            THEN decodeFrames(Impl_HandleFrame(Decoded(m, frame), frame),
                              frameBuffer, r.offset)
            ELSE [m |-> m, offset |-> r.offset]

\* one turn of the read loop in which recv returned the bytes received
ReadThread_received(m, received) ==
    IF ~(m.impl.m_running /\ m.impl.m_socket # "INVALID")
    THEN ReadThread_exit(m)
    ELSE LET frameBuffer == m.rt.frameBuffer \o received
             r == decodeFrames(m, frameBuffer, 0)
         IN [r.m EXCEPT !.rt.frameBuffer =
                            SubSeq(frameBuffer, r.offset + 1, Len(frameBuffer))]

(* ArchipelagoClient *)

SendPacket(m, json) ==
    IF ~m.impl.m_connected
    THEN m
    ELSE [m EXCEPT !.cl.m_outgoingQueue = Append(@, json),
                   !.sent = Append(@, json),
                   !.trace.calls = Append(@, json)]

PlaceholderName == "Player"

SendConnectPacket(m) ==
    SendPacket(m, <<[Pkt("Connect") EXCEPT !.name = PlaceholderName]>>)

Authenticate(m, slot, password) ==
    IF m.cl.m_status # "Connected"
    THEN m
    ELSE SendPacket([m EXCEPT !.cl.m_slot = slot],
                    <<[Pkt("Connect") EXCEPT !.name = slot, !.password = password]>>)

\* variant: the guard lets every connected status through
SendLocationChecks_connected(m, locationIds) ==
    IF m.cl.m_status \notin {"Connected", "InGame"}
    THEN m
    ELSE SendPacket([m EXCEPT !.cl.m_checkedLocations = @ \cup SeqToSet(locationIds)],
                    <<[Pkt("LocationChecks") EXCEPT !.locations = locationIds]>>)

SendLocationChecks(m, locationIds) ==
    IF m.cl.m_status # "InGame"
    THEN m
    ELSE SendPacket([m EXCEPT !.cl.m_checkedLocations = @ \cup SeqToSet(locationIds)],
                    <<[Pkt("LocationChecks") EXCEPT !.locations = locationIds]>>)

SendLocationCheck(m, locationId) == SendLocationChecks(m, <<locationId>>)

StatusUpdate(m, status) ==
    IF m.cl.m_status # "InGame"
    THEN m
    ELSE SendPacket(m, <<[Pkt("StatusUpdate") EXCEPT !.text = status]>>)

SendPing(m) == SendPacket(m, <<Pkt("Bounce")>>)

GetStatus == cl.m_status

\* variant: a failed Impl::Connect leaves the status as it is
Connect_unreported(m, host, port, outcome, initial) ==
    IF m.cl.m_status # "Disconnected"
    THEN [m EXCEPT !.ret = "false"]
    ELSE LET m1 == Impl_Connect([m EXCEPT !.cl.m_host = host, !.cl.m_port = port,
                                          !.cl.m_status = "Connecting"],
                                host, port, outcome, initial)
         IN IF m1.blocked THEN m1
            ELSE [m1 EXCEPT !.ret = "false"]

\* Connect up to the point where Impl::Connect sleeps or has failed
Connect(m, host, port, outcome, initial) ==
    IF m.cl.m_status # "Disconnected"
    THEN [m EXCEPT !.ret = "false"]
    ELSE LET m1 == Impl_Connect([m EXCEPT !.cl.m_host = host, !.cl.m_port = port,
                                          !.cl.m_status = "Connecting"],
                                host, port, outcome, initial)
         IN IF m1.blocked THEN m1
            ELSE [m1 EXCEPT !.cl.m_status = "Error", !.ret = "false"]

\* Connect from the return of Impl::Connect, which returns m_connected
Connect_returned(m) ==
    IF m.impl.m_connected
    THEN [m EXCEPT !.cl.m_status = "Connected",
                   !.cl.m_connectionTimeout = "pending", !.ret = "true"]
    ELSE [m EXCEPT !.cl.m_status = "Error", !.ret = "false"]

Disconnect_finish(m) ==
    [m EXCEPT !.cl.m_status = "Disconnected", !.cl.m_checkedLocations = {}]

\* Disconnect up to the join inside Impl::Disconnect
Disconnect(m) ==
    IF m.cl.m_status = "Disconnected"
    THEN m
    ELSE LET m1 == Impl_Disconnect(m)
         IN IF m1.blocked THEN m1 ELSE Disconnect_finish(m1)

RawItemCallbacks(m, index, n) ==
    IF m.cl.m_itemReceivedCallback
    THEN [i \in 1..n |-> <<index + i - 1, m.cl.m_lastReceivedIndex, FALSE>>]
    ELSE <<>>

\* one turn of the loop body of ParsePacket
ParseOne(m, packet) ==
    IF packet.cmd = "<not an object>" THEN [m EXCEPT !.fault = TRUE]
    ELSE IF packet.cmd \in {"<object without cmd>", "<cmd is not a string>"} THEN m
    ELSE IF packet.cmd = "RoomInfo"
    THEN SendConnectPacket([m EXCEPT !.cl.m_status = "Connected"])
    ELSE IF packet.cmd = "Connected"
    THEN [m EXCEPT !.cl.m_status = "InGame",
                   !.cl.m_slotId = IF packet.slot # Absent THEN packet.slot ELSE @,
                   !.cl.m_team = IF packet.team # Absent THEN packet.team ELSE @]
    ELSE IF packet.cmd = "ConnectionRefused"
    THEN [m EXCEPT !.cl.m_status = "Error"]
    ELSE IF packet.cmd = "ReceivedItems"
    THEN IF packet.index # Absent /\ packet.items # Absent
         THEN [m EXCEPT !.cb = @ \o RawItemCallbacks(m, packet.index, packet.items)]
         ELSE m
    ELSE m

RECURSIVE forEachElement(_, _)
forEachElement(m, elems) ==
    IF elems = <<>> \/ m.fault THEN m
    ELSE forEachElement(ParseOne(m, Head(elems)), Tail(elems))

ParsePacket(m, json) ==
    IF json.kind # "array" \/ json.elems = <<>>
    THEN m
    ELSE forEachElement(m, json.elems)

\* history: the message is handled, and with it the oldest decoded message
\* is accounted for
HandleMessage(m, message) ==
    ParsePacket([m EXCEPT !.trace.handled = Append(@, message),
                          !.trace.decoded = IF @ = <<>> THEN @ ELSE Tail(@),
                          !.trace.fired = IF m.cl.m_messageCallback THEN @ + 1 ELSE @],
                message)

RECURSIVE forEachMessage(_, _)
forEachMessage(m, messages) ==
    IF messages = <<>> THEN m
    ELSE forEachMessage(HandleMessage(m, Head(messages)), Tail(messages))

\* variant: the newest entry of the outgoing queue is written first
RECURSIVE flushOutgoing_newest(_)
flushOutgoing_newest(m) ==
    IF m.cl.m_outgoingQueue = <<>> THEN m
    ELSE LET q == m.cl.m_outgoingQueue
         IN flushOutgoing_newest([Impl_SendMessage(m, q[Len(q)])
                                     EXCEPT !.cl.m_outgoingQueue = SubSeq(q, 1, Len(q) - 1)])

\* history: the pump has flushed every SendPacket call made so far
Flushed(m) == [m EXCEPT !.trace.order = m.trace.calls, !.trace.calls = <<>>]

RECURSIVE flushOutgoing(_)
flushOutgoing(m) ==
    IF m.cl.m_outgoingQueue = <<>> THEN m
    ELSE flushOutgoing([Impl_SendMessage(m, Head(m.cl.m_outgoingQueue))
                            EXCEPT !.cl.m_outgoingQueue = Tail(@)])

ProcessMessages(m) ==
    IF m.cl.m_status = "Connecting" /\ m.cl.m_connectionTimeout = "passed"
    THEN Disconnect([m EXCEPT !.cl.m_status = "Error"])
    ELSE Flushed(flushOutgoing(forEachMessage(Impl_GetIncomingMessages(m),
                                              m.impl.m_incomingMessages)))

-----------------------------------------------------------------------------
(* Actions of the raw-socket client.  J is the record of input sets.  The  *)
(* caller thread is at pc; the read thread runs between the caller's steps  *)
(* and while the caller sleeps in Connect or waits in join.                *)

RStep(op, m, newpc) ==
    /\ ~crashed
    /\ client = "raw"
    /\ cl' = m.cl
    /\ impl' = m.impl
    /\ rt' = m.rt
    /\ pc' = newpc
    /\ last' = [op |-> op, pre |-> cl.m_status, ret |-> m.ret, heard |-> "none"]
    /\ sent' = m.sent
    /\ cb' = Tally(m.cb)
    /\ trace' = m.trace
    /\ net' = m.net
    /\ crashed' = m.fault
    /\ UNCHANGED <<client, lwsVars, codec>>

\* the queues of m stay within the bounds of the environment J
Fits(m, J) ==
    /\ Len(m.cl.m_outgoingQueue) <= J.outgoing
    /\ Len(m.impl.m_incomingMessages) <= J.incoming

ClConnect(J) ==
    /\ pc = "idle"
    /\ \E hp \in J.conn, o \in J.outcome, d \in J.initial :
        LET m == Connect(RM, hp[1], hp[2], o, d)
        IN RStep("Connect", m, IF m.blocked THEN "Connect" ELSE "idle")

ClConnectReturn ==
    /\ pc = "Connect"
    /\ RStep("Connect:return", Connect_returned(RM), "idle")

ClDisconnect ==
    /\ pc = "idle"
    /\ LET m == Disconnect(RM)
       IN RStep("Disconnect", m, IF m.blocked THEN "Disconnect" ELSE "idle")

ClDisconnectJoined ==
    /\ pc = "Disconnect"
    /\ impl.m_readThread = "exited"
    /\ RStep("Disconnect:return", Disconnect_finish(Impl_Disconnect_joined(RM)), "idle")

ClAuthenticate(J) ==
    /\ pc = "idle"
    /\ \E a \in J.auth :
        /\ Fits(Authenticate(RM, a[1], a[2]), J)
        /\ RStep("Authenticate", Authenticate(RM, a[1], a[2]), "idle")

ClSendLocationCheck(J) ==
    /\ pc = "idle"
    /\ \E id \in J.loc :
        /\ Fits(SendLocationCheck(RM, id), J)
        /\ RStep("SendLocationCheck", SendLocationCheck(RM, id), "idle")

ClSendLocationChecks(J) ==
    /\ pc = "idle"
    /\ \E ids \in J.locs :
        /\ Fits(SendLocationChecks(RM, ids), J)
        /\ RStep("SendLocationChecks", SendLocationChecks(RM, ids), "idle")

ClStatusUpdate(J) ==
    /\ pc = "idle"
    /\ \E st \in J.status :
        /\ Fits(StatusUpdate(RM, st), J)
        /\ RStep("StatusUpdate", StatusUpdate(RM, st), "idle")

ClSendPing(J) ==
    /\ pc = "idle"
    /\ Fits(SendPing(RM), J)
    /\ RStep("SendPing", SendPing(RM), "idle")

ClSetItemReceivedCallback ==
    /\ pc = "idle"
    /\ ~cl.m_itemReceivedCallback
    /\ RStep("SetItemReceivedCallback",
             [RM EXCEPT !.cl.m_itemReceivedCallback = TRUE], "idle")

ClSetMessageCallback ==
    /\ pc = "idle"
    /\ ~cl.m_messageCallback
    /\ RStep("SetMessageCallback", [RM EXCEPT !.cl.m_messageCallback = TRUE], "idle")

ClProcessMessages ==
    /\ pc = "idle"
    /\ LET m == ProcessMessages(RM)
       IN RStep("ProcessMessages", m, IF m.blocked THEN "Disconnect" ELSE "idle")

\* the ten seconds after a successful Connect go by
ClTimePasses ==
    /\ cl.m_connectionTimeout = "pending"
    /\ RStep("time", [RM EXCEPT !.cl.m_connectionTimeout = "passed"], pc)

RtEnter ==
    /\ rt.at = "start"
    /\ RStep("thread", ReadThread_enter(RM), pc)

RtLoop(J) ==
    /\ rt.at = "loop"
    /\ \E received \in RecvResults, frames \in J.recv :
        /\ Fits(ReadThread_loop(RM, received, frames), J)
        /\ RStep("thread", ReadThread_loop(RM, received, frames), pc)

(* The same calls taken apart at send(): a thread that has entered send()  *)
(* stays there until a later step, so that the other thread runs meanwhile *)

\* the flush loop of ProcessMessages up to the next message that SendMessage
\* does write
RECURSIVE flushUntilWrite(_)
flushUntilWrite(m) ==
    IF m.cl.m_outgoingQueue = <<>> THEN m
    ELSE IF ~m.impl.m_connected \/ m.impl.m_socket = "INVALID"
    THEN flushUntilWrite([m EXCEPT !.cl.m_outgoingQueue = Tail(@)])
    ELSE m

\* the pump has reached send() for the head of the queue, or has finished
PumpStep(m) ==
    IF m.cl.m_outgoingQueue = <<>>
    THEN RStep("ProcessMessages", Flushed(m), "idle")
    ELSE RStep("ProcessMessages:send", m, "SendMessage")

ClPumpBegin ==
    /\ pc = "idle"
    /\ cl.m_status # "Connecting"
    /\ PumpStep(flushUntilWrite(forEachMessage(Impl_GetIncomingMessages(RM),
                                                impl.m_incomingMessages)))

ClPumpWritten ==
    /\ pc = "SendMessage"
    /\ PumpStep(flushUntilWrite([RM EXCEPT
                    !.trace.written = Append(@, Head(cl.m_outgoingQueue)),
                    !.cl.m_outgoingQueue = Tail(@)]))

\* Disconnect with a valid socket: m_running is cleared and send() entered
\* for the close frame
ClDisconnectBegin ==
    /\ pc = "idle"
    /\ cl.m_status # "Disconnected"
    /\ impl.m_socket # "INVALID"
    /\ RStep("Disconnect:send", [RM EXCEPT !.impl.m_running = FALSE], "Close")

ClCloseSent ==
    /\ pc = "Close"
    /\ LET m == Disconnect(RM)
       IN RStep("Disconnect", m, IF m.blocked THEN "Disconnect" ELSE "idle")

\* the read loop decodes a Ping and HandleFrame enters send() for the Pong
RtLoopPing ==
    /\ rt.at = "loop"
    /\ rt.frameBuffer = <<>>
    /\ impl.m_running /\ impl.m_socket # "INVALID"
    /\ RStep("thread", [RM EXCEPT !.rt.at = "pong"], pc)

RtPongSent ==
    /\ rt.at = "pong"
    /\ RStep("thread", [RM EXCEPT !.rt.at = "loop"], pc)

\* the threads that are inside send() on the socket
Writers ==
    {t \in {"caller", "reader"} :
        \/ t = "caller" /\ pc \in {"SendMessage", "Close"}
        \/ t = "reader" /\ rt.at = "pong"}

(* The server sends frames, and recv hands their bytes to the read loop in *)
(* reads of some size                                                      *)

\* an unmasked frame with a payload of at most 65535 bytes, as a server sends it
ServerFrame(opcode, payload) ==
    IF Len(payload) <= 125
    THEN <<128 + opcode, Len(payload)>> \o payload
    ELSE <<128 + opcode, 126, (Len(payload) \div 256) % 256, Len(payload) % 256>>
             \o payload

SrvSend(J) ==
    /\ impl.m_connected
    /\ net.wire = <<>>
    /\ Len(net.msgs) < MaxFrames
    /\ \E payload \in J.payloads :
        RStep("server", [RM EXCEPT !.net.wire = ServerFrame(1, payload),
                                   !.net.fed = <<>>,
                                   !.net.msgs = Append(@, payload)], pc)

RtRecv(J) ==
    /\ rt.at = "loop"
    /\ net.wire # <<>>
    /\ \E n \in J.reads \cup {Len(net.wire)} :
        /\ n <= Len(net.wire)
        /\ RStep("thread",
                 ReadThread_received([RM EXCEPT !.net.wire = SubSeq(@, n + 1, Len(@)),
                                               !.net.fed = Append(@, n)],
                                     SubSeq(net.wire, 1, n)),
                 pc)

(* The server sends its first frame in one piece with the handshake        *)
(* response and nothing afterwards                                        *)

\* the handshake appends each chunk to the response as a C string, which
\* ends at the first zero byte; tail is what follows the header terminator
RECURSIVE AfterHeaders(_)
AfterHeaders(tail) ==
    IF tail = <<>> \/ Head(tail) = 0 THEN <<>>
    ELSE <<Head(tail)>> \o AfterHeaders(Tail(tail))

ClConnectTail(J) ==
    /\ pc = "idle"
    /\ cl.m_status = "Disconnected"
    /\ \E hp \in J.conn, o \in J.outcome, payloads \in J.tails :
        LET tail == IF payloads = <<>> THEN <<>> ELSE ServerFrame(1, payloads[1])
            m == Connect([RM EXCEPT !.net = [NetInit EXCEPT !.head = tail,
                                                            !.msgs = payloads]],
                         hp[1], hp[2], o, AfterHeaders(tail))
        IN RStep("Connect", m, IF m.blocked THEN "Connect" ELSE "idle")

\* a turn of the read loop in which recv has nothing to return
RtIdle ==
    /\ rt.at = "loop"
    /\ RStep("thread", ReadThread_loop(RM, "wouldblock", <<>>), pc)

(* The handshake response.  A response is its lines, the status line      *)
(* first, and the text that follows the header terminator; a line is the  *)
(* pieces of text it is made of                                            *)

Response(lines, tail) == [lines |-> lines, tail |-> tail]

RECURSIVE Flatten(_)
Flatten(lines) ==
    IF lines = <<>> THEN <<>> ELSE Head(lines) \o Flatten(Tail(lines))

\* response.find(piece) # npos, over everything received
Find(response, piece) ==
    \E i \in DOMAIN (Flatten(response.lines) \o response.tail) :
        (Flatten(response.lines) \o response.tail)[i] = piece

\* the check SendWebSocketHandshake makes once the header terminator is in
SendWebSocketHandshake(response) ==
    IF Find(response, "HTTP/1.1 101") /\ Find(response, "Upgrade: websocket")
    THEN "ok"
    ELSE "handshake_failed"

ClConnectResponse(J) ==
    /\ pc = "idle"
    /\ cl.m_status = "Disconnected"
    /\ \E hp \in J.conn, response \in J.responses :
        LET m == Connect([RM EXCEPT !.net = [NetInit EXCEPT !.response = response]],
                         hp[1], hp[2], SendWebSocketHandshake(response), <<>>)
        IN RStep("Connect", m, IF m.blocked THEN "Connect" ELSE "idle")

\* the read thread finds the loop condition false
RtStops ==
    /\ rt.at = "loop"
    /\ ~(impl.m_running /\ impl.m_socket # "INVALID")
    /\ RStep("thread", ReadThread_loop(RM, "wouldblock", <<>>), pc)

(* The encoder and the decoder applied to one payload and one mask key *)

NoCodec == [stage |-> "none"]

CodecEncode ==
    /\ client = "codec"
    /\ codec.stage = "input"
    /\ codec' = [codec EXCEPT !.stage = "encoded",
                              !.bytes = EncodeWebSocketFrame(codec.payload, codec.mask)]
    /\ UNCHANGED <<client, lwsVars, rawVars, last, sent, cb, crashed>>

CodecDecode ==
    /\ client = "codec"
    /\ codec.stage = "encoded"
    /\ codec' = [codec EXCEPT !.stage = "decoded",
                              !.result = DecodeFrame(codec.bytes, 0)]
    /\ UNCHANGED <<client, lwsVars, rawVars, last, sent, cb, crashed>>

(* A Ping frame arrives and HandleFrame writes the Pong *)

\* 0x80 | n, stored in a uint8_t
Or128(n) == (IF (n \div 128) % 2 = 1 THEN n ELSE n + 128) % 256

\* the bytes HandleFrame hands to send() for a Ping frame
HandleFrame_PING(frame) ==
    <<138, Or128(Len(frame.payload))>> \o <<0, 0, 0, 0>> \o frame.payload

PingArrives ==
    /\ client = "codec"
    /\ codec.stage = "ping"
    /\ codec' = [codec EXCEPT !.stage = "decoded",
                              !.result = DecodeFrame(ServerFrame(9, codec.payload), 0)]
    /\ UNCHANGED <<client, lwsVars, rawVars, last, sent, cb, crashed>>

PongWritten ==
    /\ client = "codec"
    /\ codec.stage = "decoded"
    /\ codec.result.ok /\ OpName(codec.result.frame.opcode) = "PING"
    /\ codec' = [codec EXCEPT !.stage = "ponged",
                              !.bytes = HandleFrame_PING(codec.result.frame)]
    /\ UNCHANGED <<client, lwsVars, rawVars, last, sent, cb, crashed>>

-----------------------------------------------------------------------------
(* websocketpp-based client (unnamed/part_000).  The websocketpp handlers  *)
(* run on the ASIO thread, which Impl::Start creates; the caller thread is *)
(* at pc.  m_connection is "none", "pending" while the connection is being *)
(* opened, "open" or "closed"                                               *)

WsppImplInit ==
    [m_connected |-> FALSE, m_running |-> FALSE, m_connection |-> "none"]

WM == [cl |-> cl, impl |-> impl, sent |-> <<>>, cb |-> <<>>,
       trace |-> [trace EXCEPT !.handled = <<>>, !.order = <<>>, !.written = <<>>,
                               !.fired = 0],
       ret |-> "void", fault |-> FALSE]

\* on a connection that is not open websocketpp's send reports an error
Wspp_SendMessage(m, message) ==
    IF ~m.impl.m_connected \/ m.impl.m_connection = "none"
    THEN m
    ELSE IF m.impl.m_connection # "open"
    THEN m
    ELSE [m EXCEPT !.trace.written = Append(@, message)]

\* the packet is queued; it is sent at once and taken off again when it is
\* alone in the queue and the transport is connected
Wspp_SendPacket(m, json) ==
    LET m1 == [m EXCEPT !.cl.m_outgoingQueue = Append(@, json),
                        !.sent = Append(@, json)]
    IN IF Len(m1.cl.m_outgoingQueue) = 1 /\ m1.impl.m_connected
       THEN [Wspp_SendMessage(m1, json) EXCEPT !.cl.m_outgoingQueue = <<>>]
       ELSE m1

Wspp_SendConnectPacket(m) ==
    Wspp_SendPacket(m, <<[Pkt("Connect") EXCEPT !.name = "SelacoPlayer"]>>)

\* one turn of the loop body of ParsePacket; on an element that is not an
\* object HasMember fails an assertion
Wspp_ParseOne(m, packet) ==
    IF packet.cmd = "<not an object>" THEN [m EXCEPT !.fault = TRUE]
    ELSE IF packet.cmd \in {"<object without cmd>", "<cmd is not a string>"} THEN m
    ELSE IF packet.cmd = "Connected"
    THEN [m EXCEPT !.cl.m_status = "InGame",
                   !.cl.m_slotId = IF packet.slot # Absent THEN packet.slot ELSE @,
                   !.cl.m_team = IF packet.team # Absent THEN packet.team ELSE @]
    ELSE IF packet.cmd = "ConnectionRefused"
    THEN [m EXCEPT !.cl.m_status = "Error"]
    ELSE IF packet.cmd = "ReceivedItems"
    THEN IF packet.items = Absent THEN m
         ELSE [m EXCEPT !.cb = @ \o RawItemCallbacks(m, IF packet.index # Absent
                                                        THEN packet.index ELSE 0,
                                                     packet.items),
                        !.cl.m_lastReceivedIndex =
                            IF packet.index # Absent THEN packet.index ELSE @]
    ELSE m

RECURSIVE Wspp_forEachElement(_, _)
Wspp_forEachElement(m, elems) ==
    IF elems = <<>> \/ m.fault THEN m
    ELSE Wspp_forEachElement(Wspp_ParseOne(m, Head(elems)), Tail(elems))

Wspp_ParsePacket(m, json) ==
    IF json.kind # "array" \/ json.elems = <<>>
    THEN m
    ELSE Wspp_forEachElement(m, json.elems)

Wspp_HandleMessage(m, message) ==
    Wspp_ParsePacket([m EXCEPT !.trace.fired = IF m.cl.m_messageCallback
                                              THEN @ + 1 ELSE @],
                     message)

RECURSIVE Wspp_flush(_)
Wspp_flush(m) ==
    IF m.cl.m_outgoingQueue = <<>> THEN m
    ELSE Wspp_flush([Wspp_SendMessage(m, Head(m.cl.m_outgoingQueue))
                        EXCEPT !.cl.m_outgoingQueue = Tail(@)])

Wspp_ProcessMessages(m) == Wspp_flush(m)

\* Connect up to the wait for the connection to open
Wspp_Connect(m, host, port, outcome) ==
    IF m.cl.m_status # "Disconnected"
    THEN [m EXCEPT !.ret = "false"]
    ELSE LET m1 == [m EXCEPT !.cl.m_host = host, !.cl.m_port = port,
                             !.cl.m_status = "Connecting",
                             !.impl.m_running = TRUE]
         IN IF outcome = "create_failed"
            THEN [m1 EXCEPT !.cl.m_status = "Error", !.ret = "false"]
            ELSE [m1 EXCEPT !.impl.m_connection = "pending"]

\* Connect from the end of the wait, which gives m_connected
Wspp_Connect_waited(m) ==
    IF m.impl.m_connected
    THEN Wspp_SendConnectPacket([m EXCEPT !.cl.m_status = "Connected", !.ret = "true"])
    ELSE [m EXCEPT !.cl.m_status = "Error", !.ret = "false"]

\* closed says whether the close handler has run before Stop ends the thread
Wspp_Disconnect(m, closed) ==
    [m EXCEPT !.impl.m_connected = IF @ /\ m.impl.m_connection # "none" /\ closed
                                   THEN FALSE ELSE @,
              !.impl.m_connection = IF @ = "none" THEN @ ELSE "closed",
              !.impl.m_running = FALSE,
              !.cl.m_status = "Disconnected",
              !.cl.m_checkedLocations = {}]

Wspp_Authenticate(m, slot, password) ==
    IF m.cl.m_status # "Connected"
    THEN m
    ELSE Wspp_SendPacket([m EXCEPT !.cl.m_slot = slot],
                         <<[Pkt("ConnectSlot") EXCEPT !.name = slot,
                                                      !.password = password]>>)

(* Actions of the websocketpp-based client.  A step of the ASIO thread has *)
(* an operation name that begins with "asio"                               *)

AsioOps == {"asio:open", "asio:fail", "asio:close", "asio:message"}

WStep(op, m, newpc) ==
    /\ ~crashed
    /\ client = "wspp"
    /\ Len(m.cl.m_outgoingQueue) <= MaxQueue
    /\ cl' = m.cl
    /\ impl' = m.impl
    /\ pc' = newpc
    /\ last' = [op |-> op, pre |-> cl.m_status, ret |-> m.ret, heard |-> "none"]
    /\ sent' = m.sent
    /\ cb' = Tally(m.cb)
    /\ trace' = m.trace
    /\ crashed' = m.fault
    /\ UNCHANGED <<client, lwsVars, rt, net, codec>>

WsConnect(J) ==
    /\ pc = "idle"
    /\ \E hp \in J.conn, o \in J.outcome :
        LET m == Wspp_Connect(WM, hp[1], hp[2], o)
        IN WStep("Connect", m,
                 IF m.impl.m_connection = "pending" THEN "Connect" ELSE "idle")

WsConnectWaited ==
    /\ pc = "Connect"
    /\ WStep("Connect:return", Wspp_Connect_waited(WM), "idle")

WsDisconnect ==
    /\ pc = "idle"
    /\ \E closed \in BOOLEAN : WStep("Disconnect", Wspp_Disconnect(WM, closed), "idle")

WsAuthenticate(J) ==
    /\ pc = "idle"
    /\ \E a \in J.auth : WStep("Authenticate", Wspp_Authenticate(WM, a[1], a[2]), "idle")

WsProcessMessages ==
    /\ pc = "idle"
    /\ WStep("ProcessMessages", Wspp_ProcessMessages(WM), "idle")

WsSetItemReceivedCallback ==
    /\ pc = "idle"
    /\ ~cl.m_itemReceivedCallback
    /\ WStep("SetItemReceivedCallback",
             [WM EXCEPT !.cl.m_itemReceivedCallback = TRUE], "idle")

\* the open handler and the fail handler
AsioOpen ==
    /\ impl.m_running /\ impl.m_connection = "pending"
    /\ \E opened \in BOOLEAN :
        WStep(IF opened THEN "asio:open" ELSE "asio:fail",
              [WM EXCEPT !.impl.m_connected = opened,
                         !.impl.m_connection = IF opened THEN "open" ELSE "closed"],
              pc)

\* the close handler
AsioClose ==
    /\ impl.m_running /\ impl.m_connection = "open"
    /\ WStep("asio:close", [WM EXCEPT !.impl.m_connected = FALSE,
                                      !.impl.m_connection = "closed"], pc)

\* the message handler
AsioMessage(J) ==
    /\ impl.m_running /\ impl.m_connection = "open"
    /\ \E text \in J.msgs :
        WStep("asio:message", Wspp_HandleMessage(WM, text), pc)

(* Queue-based client (unnamed/part_002).  The caller and the worker thread *)
(* exchange ThreadMessages over m_toThread and m_fromThread; the websocketpp *)
(* handlers run on the worker thread.  connection is "none", "pending",      *)
(* "open", "closing", "closed" or "failed".                                  *)

QueueImplInit ==
    [m_running |-> FALSE, m_connected |-> FALSE, m_status |-> "Disconnected",
     m_toThread |-> <<>>, m_fromThread |-> <<>>, connection |-> "none"]

\* heard is the last thing ProcessMessages handled: a marker of the worker
\* thread or the cmd of a packet
QM == [cl |-> cl, impl |-> impl, sent |-> <<>>, cb |-> <<>>,
       trace |-> [trace EXCEPT !.handled = <<>>, !.order = <<>>, !.written = <<>>,
                               !.fired = 0],
       ret |-> "void", fault |-> FALSE, heard |-> "none"]

Marker(name) == [kind |-> "marker", name |-> name]

SendToThread(m, msg) == [m EXCEPT !.impl.m_toThread = Append(@, msg)]

Queue_Connect(m, host, port) ==
    IF m.cl.m_status # "Disconnected"
    THEN [m EXCEPT !.ret = "false"]
    ELSE [SendToThread([m EXCEPT !.cl.m_host = host, !.cl.m_port = port,
                                 !.impl.m_running = TRUE],
                       [type |-> "CONNECT"])
            EXCEPT !.cl.m_status = "Connecting", !.ret = "true"]

Queue_SendPacket(m, json) ==
    IF m.cl.m_status \notin {"Connected", "InGame"} THEN m
    ELSE SendToThread([m EXCEPT !.sent = Append(@, json)],
                      [type |-> "SEND", data |-> json])

Queue_SendConnectPacket(m) ==
    Queue_SendPacket(m, <<[Pkt("Connect") EXCEPT !.name = "SelacoPlayer"]>>)

\* one turn of the loop body of ParsePacket; on an element that is not an
\* object HasMember fails an assertion
Queue_ParseOne(m, packet) ==
    IF packet.cmd = "<not an object>" THEN [m EXCEPT !.fault = TRUE]
    ELSE IF packet.cmd \in {"<object without cmd>", "<cmd is not a string>"} THEN m
    ELSE IF packet.cmd = "Connected"
    THEN [m EXCEPT !.heard = "Connected",
                   !.cl.m_status = "InGame",
                   !.cl.m_slotId = IF packet.slot # Absent THEN packet.slot ELSE @,
                   !.cl.m_team = IF packet.team # Absent THEN packet.team ELSE @]
    ELSE IF packet.cmd = "ConnectionRefused"
    THEN [m EXCEPT !.heard = "ConnectionRefused", !.cl.m_status = "Error"]
    ELSE [m EXCEPT !.heard = packet.cmd]

RECURSIVE Queue_forEachElement(_, _)
Queue_forEachElement(m, elems) ==
    IF elems = <<>> \/ m.fault THEN m
    ELSE Queue_forEachElement(Queue_ParseOne(m, Head(elems)), Tail(elems))

Queue_ParsePacket(m, json) ==
    IF json.kind # "array" \/ json.elems = <<>>
    THEN m
    ELSE Queue_forEachElement(m, json.elems)

Queue_HandleMessage(m, message) ==
    Queue_ParsePacket([m EXCEPT !.trace.fired = IF m.cl.m_messageCallback
                                               THEN @ + 1 ELSE @],
                      message)

\* the loop of ProcessMessages over what GetFromThread returned
RECURSIVE Queue_forEachMessage(_, _)
Queue_forEachMessage(m, messages) ==
    IF messages = <<>> \/ m.fault THEN m
    ELSE LET msg == Head(messages)
             m1 == IF msg = Marker("__CONNECTED__")
                   THEN Queue_SendConnectPacket(
                            [m EXCEPT !.cl.m_status = "Connected",
                                      !.heard = msg.name])
                   ELSE IF msg = Marker("__DISCONNECTED__")
                   THEN [m EXCEPT !.cl.m_status = "Disconnected", !.heard = msg.name]
                   ELSE IF msg = Marker("__FAILED__")
                   THEN [m EXCEPT !.cl.m_status = "Error", !.heard = msg.name]
                   ELSE Queue_HandleMessage(m, msg)
         IN Queue_forEachMessage(m1, Tail(messages))

Queue_ProcessMessages(m) ==
    LET m1 == Queue_forEachMessage([m EXCEPT !.impl.m_fromThread = <<>>],
                                   m.impl.m_fromThread)
    IN IF m1.fault THEN m1
       ELSE [m1 EXCEPT !.cl.m_status = m1.impl.m_status]

\* DoConnect, DoDisconnect and DoSend for one message taken off m_toThread
Queue_Do(m, msg, outcome) ==
    IF msg.type = "CONNECT"
    THEN IF outcome = "create_failed"
         THEN [m EXCEPT !.impl.m_status = "Error"]
         ELSE [m EXCEPT !.impl.connection = "pending"]
    ELSE IF msg.type = "DISCONNECT"
    THEN IF m.impl.m_connected THEN [m EXCEPT !.impl.connection = "closing"] ELSE m
    ELSE IF m.impl.m_connected /\ m.impl.connection = "open"
    THEN [m EXCEPT !.trace.written = Append(@, msg.data)]
    ELSE m

RECURSIVE ProcessThreadMessages(_, _)
ProcessThreadMessages(m, outcome) ==
    IF m.impl.m_toThread = <<>> THEN m
    ELSE ProcessThreadMessages(
             Queue_Do([m EXCEPT !.impl.m_toThread = Tail(@)],
                      Head(m.impl.m_toThread), outcome),
             outcome)

on_open(m) ==
    [m EXCEPT !.impl.m_connected = TRUE, !.impl.m_status = "Connected",
              !.impl.connection = "open",
              !.impl.m_fromThread = Append(@, Marker("__CONNECTED__"))]

on_close(m) ==
    [m EXCEPT !.impl.m_connected = FALSE, !.impl.m_status = "Disconnected",
              !.impl.connection = "closed",
              !.impl.m_fromThread = Append(@, Marker("__DISCONNECTED__"))]

on_fail(m) ==
    [m EXCEPT !.impl.m_connected = FALSE, !.impl.m_status = "Error",
              !.impl.connection = "failed",
              !.impl.m_fromThread = Append(@, Marker("__FAILED__"))]

on_message(m, payload) ==
    [m EXCEPT !.impl.m_fromThread = Append(@, payload)]

\* Disconnect: the DISCONNECT message, the 100 ms in which the worker thread
\* may or may not take it, and StopThread
Queue_Disconnect(m, taken, closed) ==
    IF m.cl.m_status = "Disconnected" THEN m
    ELSE LET m1 == SendToThread(m, [type |-> "DISCONNECT"])
             m2 == IF taken /\ m1.impl.m_running
                   THEN ProcessThreadMessages(m1, "queued") ELSE m1
             m3 == IF closed /\ m2.impl.connection = "closing" THEN on_close(m2) ELSE m2
         IN [m3 EXCEPT !.impl.m_running = FALSE,
                       !.cl.m_status = "Disconnected",
                       !.cl.m_checkedLocations = {}]

QStep(op, m) ==
    /\ ~crashed
    /\ client = "queue"
    /\ Len(m.impl.m_toThread) <= MaxOutgoing
    /\ Len(m.impl.m_fromThread) <= MaxIncoming
    /\ cl' = m.cl
    /\ impl' = m.impl
    /\ last' = [op |-> op, pre |-> cl.m_status, ret |-> m.ret, heard |-> m.heard]
    /\ sent' = m.sent
    /\ cb' = Tally(m.cb)
    /\ trace' = m.trace
    /\ crashed' = m.fault
    /\ UNCHANGED <<client, lwsVars, rt, pc, net, codec>>

QcConnect(J) ==
    \E hp \in J.conn : QStep("Connect", Queue_Connect(QM, hp[1], hp[2]))

QcDisconnect ==
    \E taken, closed \in BOOLEAN :
        QStep("Disconnect", Queue_Disconnect(QM, taken, closed))

QcProcessMessages ==
    QStep("ProcessMessages", Queue_ProcessMessages(QM))

\* the worker thread, while m_running holds
QtProcessThreadMessages(J) ==
    /\ impl.m_running /\ impl.m_toThread # <<>>
    /\ \E o \in J.outcome : QStep("worker:messages", ProcessThreadMessages(QM, o))

QtOpen ==
    /\ impl.m_running /\ impl.connection = "pending"
    /\ QStep("worker:open", on_open(QM))

QtFail ==
    /\ impl.m_running /\ impl.connection = "pending"
    /\ QStep("worker:fail", on_fail(QM))

QtClose ==
    /\ impl.m_running /\ impl.connection \in {"open", "closing"}
    /\ QStep("worker:close", on_close(QM))

QtMessage(J) ==
    /\ impl.m_running /\ impl.connection = "open"
    /\ \E text \in J.msgs : QStep("worker:message", on_message(QM, text))

(* The incoming queue of the raw-socket client, one statement at a time.   *)
(* The read thread is in HandleFrame (rt), the caller in GetIncomingMessages *)
(* (pc, with its local vector messages); m_incomingMutex is "free" or names  *)
(* the thread that holds it.  Text messages are numbered as they are         *)
(* decoded; trace.decoded lists them, trace.returned what the calls of       *)
(* GetIncomingMessages returned.                                             *)

InboxImplInit == [m_incomingMessages |-> <<>>, m_incomingMutex |-> "free"]

\* variant: GetIncomingMessages does not take the mutex
GetIncomingMessages_unguarded(i) == i

\* std::lock_guard<std::mutex> lock(m_incomingMutex) in GetIncomingMessages
GetIncomingMessages_lock(i) == [i EXCEPT !.m_incomingMutex = "caller"]

InboxStep(op) ==
    /\ client = "inbox"
    /\ last' = [op |-> op, pre |-> "Connected", ret |-> "void", heard |-> "none"]
    /\ UNCHANGED <<client, lwsVars, cl, sent, cb, net, codec, crashed>>

\* HandleFrame with a text frame: std::string message(...) is built
HfMessage ==
    /\ rt.at = "idle"
    /\ Len(trace.decoded) < 2 * MaxItems
    /\ rt' = [at |-> "built", message |-> Len(trace.decoded) + 1]
    /\ trace' = [trace EXCEPT !.decoded = Append(@, Len(trace.decoded) + 1)]
    /\ UNCHANGED <<impl, pc>>
    /\ InboxStep("HandleFrame:message")

\* std::lock_guard<std::mutex> lock(m_incomingMutex) in HandleFrame
HfLock ==
    /\ rt.at = "built" /\ impl.m_incomingMutex = "free"
    /\ rt' = [rt EXCEPT !.at = "locked"]
    /\ impl' = [impl EXCEPT !.m_incomingMutex = "reader"]
    /\ UNCHANGED <<pc, trace>>
    /\ InboxStep("HandleFrame:lock")

\* m_incomingMessages.push(message), and the lock_guard released at break
HfPush ==
    /\ rt.at = "locked"
    /\ rt' = [at |-> "idle", message |-> 0]
    /\ impl' = [impl EXCEPT !.m_incomingMessages = Append(@, rt.message),
                            !.m_incomingMutex = IF @ = "reader" THEN "free" ELSE @]
    /\ UNCHANGED <<pc, trace>>
    /\ InboxStep("HandleFrame:push")

GmLock ==
    /\ pc.at = "idle" /\ impl.m_incomingMutex = "free"
    /\ pc' = [at |-> "loop", messages |-> <<>>]
    /\ impl' = GetIncomingMessages_lock(impl)
    /\ UNCHANGED <<rt, trace>>
    /\ InboxStep("GetIncomingMessages:lock")

\* messages.push_back(m_incomingMessages.front())
GmCopy ==
    /\ pc.at = "loop" /\ impl.m_incomingMessages # <<>>
    /\ pc' = [at |-> "pop", messages |-> Append(pc.messages, Head(impl.m_incomingMessages))]
    /\ UNCHANGED <<impl, rt, trace>>
    /\ InboxStep("GetIncomingMessages:copy")

\* m_incomingMessages.pop()
GmPop ==
    /\ pc.at = "pop"
    /\ pc' = [pc EXCEPT !.at = "loop"]
    /\ impl' = [impl EXCEPT !.m_incomingMessages = Tail(@)]
    /\ UNCHANGED <<rt, trace>>
    /\ InboxStep("GetIncomingMessages:pop")

\* the queue is empty: the lock_guard is released and messages returned
GmReturn ==
    /\ pc.at = "loop" /\ impl.m_incomingMessages = <<>>
    /\ pc' = [at |-> "idle", messages |-> <<>>]
    /\ impl' = [impl EXCEPT !.m_incomingMutex = IF @ = "caller" THEN "free" ELSE @]
    /\ trace' = [trace EXCEPT !.returned = @ \o pc.messages]
    /\ rt' = rt
    /\ InboxStep("GetIncomingMessages:return")

(* The frame decoder of unnamed/part_001.  A uint64_t is kept as its       *)
(* eight bytes, most significant first, so that sums wrap at 2^64.          *)

\* the uint64_t holding a small number
RECURSIVE U64(_, _)
U64(n, width) ==
    IF width = 0 THEN <<>> ELSE U64(n \div 256, width - 1) \o <<n % 256>>

\* v + n in uint64_t arithmetic: the carry out of the top byte is lost
RECURSIVE Add64(_, _)
Add64(v, n) ==
    IF v = <<>> \/ n = 0 THEN v
    ELSE LET s == v[Len(v)] + n
         IN Add64(SubSeq(v, 1, Len(v) - 1), s \div 256) \o <<s % 256>>

\* n < v, for a number n below 2^24
Less64(n, v) ==
    \/ \E i \in 1..5 : v[i] # 0
    \/ n < BigEndian(SubSeq(v, 6, 8))

\* std::vector<uint8_t>::max_size() is 2^63 - 1
ExceedsMaxSize(v) == v[1] >= 128

NotDecoded(buffer) == [ret |-> "none", buffer |-> buffer, payload |-> <<>>]

WebSocketFrameDecoder_DecodeFrame(buffer) ==
    LET size == Len(buffer)
        refuse == [ret |-> "false", buffer |-> buffer, payload |-> <<>>]
    IN IF size < 2 THEN refuse
       ELSE
       LET byte2 == buffer[2]
           masked == byte2 \div 128 = 1
           len7 == byte2 % 128
           lenBytes == IF len7 = 126 THEN 2 ELSE IF len7 = 127 THEN 8 ELSE 0
       IN IF size < 2 + lenBytes THEN refuse
          ELSE
          LET payload_len ==
                  IF len7 = 126 THEN U64(256 * buffer[3] + buffer[4], 8)
                  ELSE IF len7 = 127 THEN SubSeq(buffer, 3, 10)
                  ELSE U64(len7, 8)
              keyAt == 2 + lenBytes
              pos == IF masked THEN keyAt + 4 ELSE keyAt
          IN IF masked /\ size < keyAt + 4 THEN refuse
             ELSE IF Less64(size, Add64(payload_len, pos)) THEN refuse
             \* frame.payload.resize(payload_len)
             ELSE IF ExceedsMaxSize(payload_len)
             THEN [ret |-> "length_error", buffer |-> buffer, payload |-> <<>>]
             ELSE LET n == BigEndian(payload_len)
                  IN [ret |-> "true",
                      buffer |-> SubSeq(buffer, pos + n + 1, size),
                      payload |->
                          [i \in 1..n |->
                              IF masked
                              THEN Xor(buffer[pos + i],
                                       buffer[keyAt + 1 + ((i - 1) % 4)])
                              ELSE buffer[pos + i]]]

\* the read thread hands its receive buffer to the decoder
DecoderDecode ==
    /\ client = "codec"
    /\ codec.stage = "buffer"
    /\ codec' = [codec EXCEPT !.stage = "decoded",
                              !.result = WebSocketFrameDecoder_DecodeFrame(codec.bytes)]
    /\ UNCHANGED <<client, lwsVars, rawVars, last, sent, cb, crashed>>

-----------------------------------------------------------------------------
(* Inputs *)

Endpoints == {<<"example.org", 38281>>, <<"localhost", 38282>>}
OneEndpoint == {<<"example.org", 38281>>}

Msgs(E, n) ==
    {GarbageMsg, NonArrayMsg} \cup {ArrayMsg(q) : q \in SeqsUpTo(E, n)}

\* the session state machine of the LWS-based client
SessionIn ==
    [conn |-> Endpoints, outcome |-> ConnectOutcomes,
     auth |-> {<<"Nova", "">>},
     msgs |-> Msgs({RoomInfoPkt, ConnectedPkt(3, 0), ConnectionRefusedPkt,
                    NoCmdElem}, MaxPackets),
     write |-> WriteOutcomes]

\* location checks of the LWS-based client
LocIn ==
    [conn |-> OneEndpoint, outcome |-> ConnectOutcomes,
     loc |-> {42}, locs |-> {<<>>, <<42, 7>>},
     msgs |-> Msgs({ConnectedPkt(3, 0), ConnectionRefusedPkt,
                    ReceivedItemsPkt(0, 1)}, MaxPackets),
     write |-> WriteOutcomes]

\* item delivery of the LWS-based client, one packet to a message
ItemElems ==
    {ConnectedPkt(3, 0), Pkt("ReceivedItems"), ReceivedItemsPkt(Absent, 1)}
        \cup {ReceivedItemsPkt(i, n) : i \in 0..MaxIndex, n \in {0, 1, 3, MaxItems}}

ItemIn ==
    [conn |-> OneEndpoint, outcome |-> ConnectOutcomes,
     msgs |-> Msgs(ItemElems, 1),
     write |-> WriteOutcomes]

\* the raw-socket client: one recv completes no frame or one frame
RawTexts ==
    {ArrayMsg(<<e>>) : e \in {RoomInfoPkt, ConnectedPkt(3, 0),
                              ConnectionRefusedPkt, NotObjectElem}}

RawFrames == {TextFrame(t) : t \in RawTexts} \cup {PingFrame, CloseFrame}

RawIn ==
    [conn |-> Endpoints, outcome |-> ImplConnectOutcomes,
     initial |-> {<<>>, <<TextFrame(ArrayMsg(<<RoomInfoPkt>>))>>},
     auth |-> {<<"Nova", "">>},
     loc |-> {42}, locs |-> {<<42, 7>>},
     status |-> {"READY"},
     recv |-> SeqsUpTo(RawFrames, 1),
     outgoing |-> MaxQueue, incoming |-> MaxIncoming]

\* the pump of the raw-socket client: two different messages, queues of two
PumpFrames ==
    {TextFrame(ArrayMsg(<<RoomInfoPkt>>)), TextFrame(ArrayMsg(<<ConnectedPkt(3, 0)>>))}

PumpIn ==
    [conn |-> OneEndpoint, outcome |-> {"ok"},
     initial |-> {<<>>},
     auth |-> {<<"Nova", "">>},
     loc |-> {42}, locs |-> {<<42, 7>>},
     status |-> {"READY"},
     recv |-> SeqsUpTo(PumpFrames, 1),
     outgoing |-> MaxOutgoing, incoming |-> MaxPending]

\* payloads of the three length tiers of a frame and mask keys
Filled(n, b) == [i \in 1..n |-> b]

Payloads ==
    SeqsUpTo({0, 65, 255}, MaxPayload)
        \cup {Filled(n, 65) : n \in {125, 126, 65535, 65536}}

MaskKeys == {<<0, 0, 0, 0>>, <<1, 2, 3, 4>>, <<255, 0, 255, 128>>}

CodecInputs ==
    {[stage |-> "input", payload |-> p, mask |-> k, bytes |-> <<>>,
      result |-> Undecoded(0)] : p \in Payloads, k \in MaskKeys}

\* Ping payloads: short ones, and runs around the sizes where the length
\* no longer fits the second byte of the frame
PingPayloads ==
    SeqsUpTo({0, 65, 255}, MaxPing)
        \cup {Filled(n, 65) : n \in {125, 126, 127, 128, 200, 256, 300}}

PingInputs ==
    {[stage |-> "ping", payload |-> p, mask |-> <<0, 0, 0, 0>>, bytes |-> <<>>,
      result |-> Undecoded(0)] : p \in PingPayloads}

\* frames arriving in pieces: "hi" and "{"
FeedIn ==
    [conn |-> OneEndpoint, outcome |-> {"ok"},
     initial |-> {<<>>},
     payloads |-> {<<104, 105>>, <<123>>},
     reads |-> {1}]

\* a first frame, "hi" or the empty text, arriving with the handshake response
SilentIn ==
    [conn |-> Endpoints, outcome |-> {"ok", "handshake_failed"},
     tails |-> SeqsUpTo({<<104, 105>>, <<>>}, 1),
     auth |-> {<<"Nova", "">>},
     outgoing |-> MaxQueue, incoming |-> MaxIncoming]

\* handshake responses: accepted, rejected, and rejected ones that quote
\* the accepting texts elsewhere
StatusLines == {<<"HTTP/1.1 101", " Switching Protocols">>, <<"HTTP/1.1 400", " Bad Request">>}

HeaderLines ==
    {<<"Upgrade: websocket">>, <<"Connection: Upgrade">>,
     <<"X-Request: ", "HTTP/1.1 101">>, <<"X-Hint: retry with ", "Upgrade: websocket">>}

Responses ==
    {Response(<<st>> \o hs, tl) :
        st \in StatusLines, hs \in SeqsUpTo(HeaderLines, MaxHeaders),
        tl \in {<<>>, <<"HTTP/1.1 101">>, <<"Upgrade: websocket">>}}

HandshakeIn ==
    [conn |-> OneEndpoint, responses |-> Responses]

\* a server that accepts the connection and then sends nothing
TimeoutIn ==
    [conn |-> Endpoints, outcome |-> ImplConnectOutcomes,
     initial |-> {<<>>},
     auth |-> {<<"Nova", "">>},
     outgoing |-> MaxQueue, incoming |-> MaxIncoming]

\* a server that sends RoomInfo, Pings and Close frames, and may close the
\* connection
CloseIn ==
    [conn |-> OneEndpoint, outcome |-> ImplConnectOutcomes,
     initial |-> {<<>>},
     auth |-> {<<"Nova", "">>},
     recv |-> SeqsUpTo({TextFrame(ArrayMsg(<<RoomInfoPkt>>)), PingFrame, CloseFrame}, 1),
     outgoing |-> MaxQueue, incoming |-> MaxIncoming]

\* the websocketpp-based client: one packet to a message
WsppIn ==
    [conn |-> OneEndpoint, outcome |-> {"queued", "create_failed"},
     auth |-> {<<"Nova", "">>},
     msgs |-> Msgs({RoomInfoPkt, ConnectedPkt(3, 0), ConnectionRefusedPkt,
                    ReceivedItemsPkt(1, 1)}, 1)]

\* sessions of the LWS-based client that are set up and torn down
TeardownIn ==
    [conn |-> OneEndpoint, outcome |-> ConnectOutcomes,
     msgs |-> Msgs({RoomInfoPkt, ConnectedPkt(3, 0)}, 1),
     write |-> WriteOutcomes]

\* receive buffers for the decoder: one frame header of each length tier,
\* masked or not, declaring from nothing up to 2^64 - 1 payload bytes, with
\* up to MaxPayload bytes behind it
DeclaredLengths ==
    {<<n>> : n \in 0..MaxPayload + 1}
        \cup {<<126, 0, n>> : n \in 0..MaxPayload + 1}
        \cup {<<127>> \o U64(n, 8) : n \in 0..MaxPayload + 1}
        \cup {<<127>> \o [i \in 1..8 |-> IF i = 8 THEN b ELSE 255] : b \in {241, 245, 246, 255}}
        \cup {<<127>> \o [i \in 1..8 |-> IF i = 1 THEN b ELSE 0] : b \in {1, 127, 128}}

DecoderBuffers ==
    {<<129>> \o d \o p : d \in DeclaredLengths, p \in SeqsUpTo({65}, MaxPayload)}
        \cup {<<129, d[1] + 128>> \o Tail(d) \o <<1, 2, 3, 4>> \o p :
                 d \in DeclaredLengths, p \in SeqsUpTo({65}, MaxPayload)}

DecoderInputs ==
    {[stage |-> "buffer", payload |-> <<>>, mask |-> <<0, 0, 0, 0>>, bytes |-> b,
      result |-> NotDecoded(b)] : b \in DecoderBuffers}

\* sessions of the queue-based client
QueueIn ==
    [conn |-> OneEndpoint, outcome |-> {"queued", "create_failed"},
     msgs |-> {ArrayMsg(<<RoomInfoPkt>>), ArrayMsg(<<ConnectedPkt(3, 0)>>),
               ArrayMsg(<<ConnectionRefusedPkt>>)}]

\* reads of the raw-socket client that deliver several frames at once; where
\* a Close frame is among them it is the first
BatchIn ==
    [conn |-> OneEndpoint, outcome |-> {"ok"},
     initial |-> {<<>>},
     auth |-> {<<"Nova", "">>},
     recv |-> {<<>>, <<CloseFrame>>, <<PingFrame>>,
               <<TextFrame(ArrayMsg(<<RoomInfoPkt>>))>>,
               <<CloseFrame, TextFrame(ArrayMsg(<<RoomInfoPkt>>))>>,
               <<CloseFrame, PingFrame>>,
               <<TextFrame(ArrayMsg(<<RoomInfoPkt>>)),
                 TextFrame(ArrayMsg(<<ConnectedPkt(3, 0)>>))>>},
     outgoing |-> MaxQueue, incoming |-> MaxPending]

\* socket writes of the raw-socket client
WriteIn ==
    [conn |-> OneEndpoint, outcome |-> {"ok"},
     initial |-> {<<>>},
     auth |-> {<<"Nova", "">>},
     recv |-> SeqsUpTo({TextFrame(ArrayMsg(<<RoomInfoPkt>>))}, 1),
     outgoing |-> MaxQueue, incoming |-> MaxIncoming]

-----------------------------------------------------------------------------
(* Specifications *)

Constructed ==
    /\ ap = ApInit /\ ws = WsInit /\ lib = LibInit
    /\ cl = ClInit /\ impl = ImplInit /\ rt = RtInit /\ pc = "idle"
    /\ last = [op |-> "construct", pre |-> "Disconnected", ret |-> "void",
               heard |-> "none"]
    /\ sent = <<>> /\ cb = Tally(<<>>) /\ accepted = {} /\ delivered = {}
    /\ scen = 0
    /\ rooms = {}
    /\ checks = NoChecks
    /\ trace = TraceInit
    /\ net = NetInit
    /\ crashed = FALSE

Init == client \in {"lws", "raw"} /\ Constructed /\ codec = NoCodec
InitLws == client = "lws" /\ Constructed /\ codec = NoCodec
InitRaw == client = "raw" /\ Constructed /\ codec = NoCodec
InitCodec == client = "codec" /\ Constructed /\ codec \in CodecInputs
InitWspp ==
    /\ client = "wspp" /\ codec = NoCodec
    /\ ap = ApInit /\ ws = WsInit /\ lib = LibInit
    /\ cl = ClInit /\ impl = WsppImplInit /\ rt = RtInit /\ pc = "idle"
    /\ last = [op |-> "construct", pre |-> "Disconnected", ret |-> "void",
               heard |-> "none"]
    /\ sent = <<>> /\ cb = Tally(<<>>) /\ accepted = {} /\ delivered = {}
    /\ scen = 0 /\ rooms = {} /\ checks = NoChecks
    /\ trace = TraceInit /\ net = NetInit /\ crashed = FALSE
InitPing == client = "codec" /\ Constructed /\ codec \in PingInputs

\* connection management and the pump, common to every environment of the
\* LWS-based client
LCore(I) ==
    \/ ApConnect(I)
    \/ ApDisconnect
    \/ ApDisconnectFaults
    \/ ApUpdateIdle
    \/ ApUpdateEstablished
    \/ ApUpdateConnectionError
    \/ ApUpdateClosed
    \/ ApUpdateReceive(I)
    \/ ApUpdateWriteable(I)
    \/ ApTimePasses

SessionNext ==
    \/ LCore(SessionIn)
    \/ ApAuthenticate(SessionIn)

SessionSpec == InitLws /\ [][SessionNext]_vars

LocNext ==
    \/ LCore(LocIn)
    \/ ApSendLocationCheck(LocIn)
    \/ ApSendLocationChecks(LocIn)

LocSpec == InitLws /\ [][LocNext]_vars

ItemNext ==
    \/ LCore(ItemIn)
    \/ ApSetItemReceivedCallback

ItemSpec == InitLws /\ [][ItemNext]_vars

\* connection management, authentication and the pump, common to every
\* environment of the raw-socket client
RCore(J) ==
    \/ ClConnect(J)
    \/ ClConnectReturn
    \/ ClDisconnect
    \/ ClDisconnectJoined
    \/ ClAuthenticate(J)
    \/ ClProcessMessages
    \/ RtEnter
    \/ RtLoop(J)

RawNext ==
    \/ RCore(RawIn)
    \/ ClSendLocationCheck(RawIn)
    \/ ClSendLocationChecks(RawIn)

RawSpec == InitRaw /\ [][RawNext]_vars

PumpNext ==
    \/ RCore(PumpIn)
    \/ ClSendLocationCheck(PumpIn)
    \/ ClSetMessageCallback

PumpSpec == InitRaw /\ [][PumpNext]_vars

\* the raw-socket client with its socket writes taken apart
WriteNext ==
    \/ ClConnect(WriteIn)
    \/ ClConnectReturn
    \/ ClDisconnectBegin
    \/ ClCloseSent
    \/ ClDisconnectJoined
    \/ ClAuthenticate(WriteIn)
    \/ ClPumpBegin
    \/ ClPumpWritten
    \/ RtEnter
    \/ RtLoop(WriteIn)
    \/ RtLoopPing
    \/ RtPongSent

WriteSpec == InitRaw /\ [][WriteNext]_vars

\* the raw-socket client receiving frames in pieces
FeedNext ==
    \/ ClConnect(FeedIn)
    \/ ClConnectReturn
    \/ RtEnter
    \/ SrvSend(FeedIn)
    \/ RtRecv(FeedIn)

FeedSpec == InitRaw /\ [][FeedNext]_vars

\* the raw-socket client with a server that sends nothing after the
\* handshake response; the read thread keeps running
SilentNext ==
    \/ ClConnectTail(SilentIn)
    \/ ClConnectReturn
    \/ ClDisconnect
    \/ ClDisconnectJoined
    \/ ClAuthenticate(SilentIn)
    \/ ClSetMessageCallback
    \/ ClSetItemReceivedCallback
    \/ RtEnter
    \/ RtIdle

SilentSpec ==
    InitRaw /\ [][SilentNext]_vars /\ WF_vars(RtEnter) /\ WF_vars(RtIdle)

\* the raw-socket client connecting to servers that answer the handshake
\* request in every way
HandshakeNext ==
    \/ ClConnectResponse(HandshakeIn)
    \/ ClConnectReturn
    \/ ClDisconnect
    \/ ClDisconnectJoined
    \/ RtEnter
    \/ RtIdle

HandshakeSpec == InitRaw /\ [][HandshakeNext]_vars

\* the raw-socket client and its clock, the server staying silent
TimeoutNext ==
    \/ ClConnect(TimeoutIn)
    \/ ClConnectReturn
    \/ ClDisconnect
    \/ ClDisconnectJoined
    \/ ClAuthenticate(TimeoutIn)
    \/ ClProcessMessages
    \/ ClTimePasses
    \/ RtEnter
    \/ RtIdle

TimeoutSpec == InitRaw /\ [][TimeoutNext]_vars

\* the raw-socket client with a caller that connects, authenticates and
\* keeps pumping, and never disconnects
DropNext ==
    \/ ClConnect(RawIn)
    \/ ClConnectReturn
    \/ ClAuthenticate(RawIn)
    \/ ClProcessMessages
    \/ RtEnter
    \/ RtLoop(RawIn)

DropSpec ==
    InitRaw /\ [][DropNext]_vars /\ WF_vars(ClProcessMessages) /\ WF_vars(RtEnter)

\* the raw-socket client with a read thread that is scheduled again once
\* its loop has been told to stop
CloseNext ==
    \/ RCore(CloseIn)
    \/ RtStops

CloseSpec == InitRaw /\ [][CloseNext]_vars /\ WF_vars(RtStops)

\* the frame decoder of unnamed/part_001 on its own
InitDecoder == client = "codec" /\ Constructed /\ codec \in DecoderInputs

DecoderNext == DecoderDecode

DecoderSpec == InitDecoder /\ [][DecoderNext]_vars

\* the queue-based client and its worker thread
InitQueue ==
    /\ client = "queue" /\ codec = NoCodec
    /\ ap = ApInit /\ ws = WsInit /\ lib = LibInit
    /\ cl = ClInit /\ impl = QueueImplInit /\ rt = RtInit /\ pc = "idle"
    /\ last = [op |-> "construct", pre |-> "Disconnected", ret |-> "void",
               heard |-> "none"]
    /\ sent = <<>> /\ cb = Tally(<<>>) /\ accepted = {} /\ delivered = {}
    /\ scen = 0 /\ rooms = {} /\ checks = NoChecks
    /\ trace = TraceInit /\ net = NetInit /\ crashed = FALSE

QueueNext ==
    \/ QcConnect(QueueIn)
    \/ QcDisconnect
    \/ QcProcessMessages
    \/ QtProcessThreadMessages(QueueIn)
    \/ QtOpen
    \/ QtFail
    \/ QtClose
    \/ QtMessage(QueueIn)

QueueSpec == InitQueue /\ [][QueueNext]_vars

\* the incoming queue between the read thread and the caller
InitInbox ==
    /\ client = "inbox" /\ codec = NoCodec
    /\ ap = ApInit /\ ws = WsInit /\ lib = LibInit
    /\ cl = ClInit /\ impl = InboxImplInit
    /\ rt = [at |-> "idle", message |-> 0]
    /\ pc = [at |-> "idle", messages |-> <<>>]
    /\ last = [op |-> "construct", pre |-> "Disconnected", ret |-> "void",
               heard |-> "none"]
    /\ sent = <<>> /\ cb = Tally(<<>>) /\ accepted = {} /\ delivered = {}
    /\ scen = 0 /\ rooms = {} /\ checks = NoChecks
    /\ trace = [decoded |-> <<>>, returned |-> <<>>]
    /\ net = NetInit /\ crashed = FALSE

InboxNext ==
    \/ HfMessage
    \/ HfLock
    \/ HfPush
    \/ GmLock
    \/ GmCopy
    \/ GmPop
    \/ GmReturn

InboxSpec == InitInbox /\ [][InboxNext]_vars

\* the raw-socket client with several frames to a read
BatchNext == RCore(BatchIn)

BatchSpec == InitRaw /\ [][BatchNext]_vars

\* the frame codec on its own
CodecNext ==
    \/ CodecEncode
    \/ CodecDecode

CodecSpec == InitCodec /\ [][CodecNext]_vars

\* the answer to a Ping on its own
PingNext ==
    \/ PingArrives
    \/ PongWritten

PingSpec == InitPing /\ [][PingNext]_vars

\* the websocketpp-based client and its ASIO thread
WsppNext ==
    \/ WsConnect(WsppIn)
    \/ WsConnectWaited
    \/ WsDisconnect
    \/ WsAuthenticate(WsppIn)
    \/ WsProcessMessages
    \/ WsSetItemReceivedCallback
    \/ AsioOpen
    \/ AsioClose
    \/ AsioMessage(WsppIn)

WsppSpec == InitWspp /\ [][WsppNext]_vars

\* setting up and tearing down sessions, both clients
TeardownNext ==
    \/ LCore(TeardownIn)
    \/ RCore(CloseIn)

TeardownSpec == Init /\ [][TeardownNext]_vars

\* connection management of both clients
ConnectSpec == Init /\ [][SessionNext \/ RawNext]_vars

\* location checks of both clients
CheckSpec == Init /\ [][LocNext \/ RawNext]_vars

-----------------------------------------------------------------------------
(* Properties *)

ConnectPackets(q) == {i \in 1..Len(q) : q[i][1].cmd = "Connect"}

\* C1: a connect() (LWS-based client) or Connect() (raw-socket client) made
\* in any state other than Disconnected returns false and leaves the client,
\* with its state, host and port, and its transport exactly as they were
ConnectRejectedUnlessDisconnected ==
    [][/\ (last'.op = "connect" /\ ap.m_state # "Disconnected")
            => (last'.ret = "false" /\ ap' = ap /\ ws' = ws /\ lib' = lib)
       /\ (last'.op = "Connect" /\ cl.m_status # "Disconnected")
            => (last'.ret = "false" /\ cl' = cl /\ impl' = impl /\ rt' = rt)]_vars

ConnectRejectedWhileAuthenticated ==
    /\ last.op = "connect" /\ last.pre = "Authenticated" /\ last.ret = "false"
    /\ ap.m_state = "Authenticated" /\ ap.m_host # ""

\* C2: in the LWS-based client a location id is in m_checkedLocations exactly
\* when a LocationChecks packet holding it was accepted by sendMessage since
\* the set was last cleared
CheckedIffAccepted ==
    client = "lws" => ap.m_checkedLocations = accepted

CheckedAndAccepted ==
    /\ last.op = "sendLocationChecks" /\ last.pre = "Authenticated"
    /\ 7 \in ap.m_checkedLocations /\ 7 \in accepted

\* C3: the item callback is invoked only for an absolute index at or above
\* the cursor, and never for an absolute index it was invoked for before in
\* the session
ItemsIndexGatedAtMostOnce ==
    cb.below = 0 /\ cb.again = 0

\* C4: no operation other than disconnect() leaves m_lastReceivedIndex lower
\* than it found it
CursorNonDecreasing ==
    [][last'.op # "disconnect"
         => ap'.m_lastReceivedIndex >= ap.m_lastReceivedIndex]_vars

\* C5: whenever disconnect() has returned, the state is Disconnected, the
\* checked-locations set is empty and the cursor is 0
DisconnectResets ==
    last.op = "disconnect"
        => /\ getState = "Disconnected"
           /\ ap.m_checkedLocations = {}
           /\ ap.m_lastReceivedIndex = 0

\* C6: once the state is Error, every operation other than disconnect()
\* leaves it Error
ErrorOnlyLeftByDisconnect ==
    [][(ap.m_state = "Error" /\ last'.op # "disconnect")
         => ap'.m_state = "Error"]_vars

ConnectNamesSlot ==
    client = "raw" =>
        \A i \in ConnectPackets(sent) :
            cl.m_slot # "" => sent[i][1].name = cl.m_slot

\* C9: in the scenario authenticate("Nova"), connect, established, RoomInfo,
\* Connected{slot 3, team 0}: the RoomInfo step sends a Connect packet named
\* "Nova", and after the Connected step the state is Authenticated, the slot
\* number 3 and the team 0
QuickConnectScenario ==
    last.op = "update:receive" =>
        /\ scen = 4 => \E i \in ConnectPackets(sent) : sent[i][1].name = "Nova"
        /\ scen = 5 => /\ getState = "Authenticated"
                       /\ getSlotNumber = 3
                       /\ ap.m_teamNumber = 0

QuickConnectCompleted ==
    scen = 5 /\ last.op = "update:receive" /\ getSlotNumber = 3

\* C10: a location check made in any state other than Authenticated (InGame
\* for the raw-socket client) changes nothing of the client or its transport
\* and sends no packet
LocationChecksNoOpUnlessAuthenticated ==
    [][/\ (last'.op \in {"sendLocationCheck", "sendLocationChecks"}
              /\ ap.m_state # "Authenticated")
            => (ap' = ap /\ ws' = ws /\ lib' = lib /\ sent' = <<>>)
       /\ (last'.op \in {"SendLocationCheck", "SendLocationChecks"}
              /\ cl.m_status # "InGame")
            => (cl' = cl /\ impl' = impl /\ rt' = rt /\ sent' = <<>>)]_vars

LocationCheckRefusedWhileConnected ==
    /\ last.op = "SendLocationChecks" /\ last.pre = "Connected"
    /\ cl.m_status = "Connected" /\ impl.m_connected
    /\ cl.m_checkedLocations = {} /\ sent = <<>>

\* C11: while Authenticated, n calls of sendLocationCheck for one id leave
\* that id in m_checkedLocations, a set, exactly once, and have n
\* LocationChecks packets for it accepted by the send path
RepeatedChecksAllSent ==
    (client = "lws" /\ checks.calls >= 1)
        => /\ Cardinality(ap.m_checkedLocations \cap {checks.id}) = 1
           /\ checks.packets = checks.calls

CheckedTwiceSentTwice ==
    /\ last.op = "sendLocationCheck" /\ last.pre = "Authenticated"
    /\ checks.calls = 2 /\ checks.packets = 2
    /\ Len(sent) = 1 /\ checks.id \in ap.m_checkedLocations

\* C12: in a session with the callback set and no item sent yet, after
\* ReceivedItems{index 0, 3 items} has notified indexes 0, 1, 2 the packet
\* ReceivedItems{index 1, 3 items} notifies no index a second time and
\* leaves the total of callbacks at 3
OverlappingReplayNotifiedOnce ==
    last.op = "update:receive" =>
        /\ scen = 6 => (cb.n = 3 /\ cb.again = 0)
        /\ scen = 7 => (cb.n = 0 /\ cb.again = 0)

\* C13: in the LWS-based client, receiving a complete message that is not
\* valid JSON, is not an array, or holds only elements without a cmd member
\* leaves the session state as it was
MalformedKeepsState ==
    [][last'.heard \in {"invalid", "nonarray", "nocmd"}
         => ap'.m_state = ap.m_state]_vars

\* C14: every ProcessMessages hands to HandleMessage, in decoding order and
\* without a gap, the text messages decoded since the previous pump, and
\* leaves the later ones, in decoding order, for the next pump
InboundFifo ==
    [][last'.op = "ProcessMessages"
         => trace.decoded = trace'.handled \o trace'.decoded]_vars

TwoHandledInOrder ==
    /\ last.op = "ProcessMessages"
    /\ trace.handled = <<ArrayMsg(<<RoomInfoPkt>>), ArrayMsg(<<ConnectedPkt(3, 0)>>)>>

IsSubseq(a, b) ==
    \E f \in [1..Len(a) -> 1..Len(b)] :
        /\ \A i, j \in 1..Len(a) : i < j => f[i] < f[j]
        /\ \A i \in 1..Len(a) : a[i] = b[f[i]]

\* C15: the frames a ProcessMessages writes to the socket are, in the same
\* relative order, the packets of the SendPacket calls that enqueued them,
\* those made by handlers during that pump included
OutboundInCallOrder ==
    (client = "raw" /\ last.op = "ProcessMessages")
        => IsSubseq(trace.written, trace.order)

TwoWrittenInCallOrder ==
    /\ last.op = "ProcessMessages" /\ trace.handled # <<>>
    /\ Len(trace.written) = 2 /\ trace.written[1] # trace.written[2]
    /\ trace.written = trace.order /\ sent # <<>>

\* C16: when Disconnect() has returned the read thread has ended and been
\* joined, and a ProcessMessages made while the client is Disconnected
\* invokes neither the message callback nor the item callback
NoCallbackAfterDisconnect ==
    [][/\ (last'.op \in {"Disconnect", "Disconnect:return"} /\ pc' = "idle"
              /\ cl.m_status # "Disconnected")
            => (impl'.m_readThread = "none" /\ rt'.at = "none")
       /\ (last'.op = "ProcessMessages" /\ cl.m_status = "Disconnected")
            => (trace'.fired = 0 /\ cb'.n = 0)]_vars

\* C17: at no time are two threads inside send() on the socket: an
\* application frame or the close frame on the caller thread and a Pong on
\* the read thread are never written at the same time
WritesSerialized ==
    Cardinality(Writers) <= 1

\* C19: for every payload and mask key, decoding the encoded frame succeeds,
\* gives a final Text frame whose payload is the original payload, consumes
\* exactly the encoded length, and the encoded frame has the mask bit set
RoundTrip ==
    /\ codec.stage \in {"encoded", "decoded"} => codec.bytes[2] \div 128 = 1
    /\ codec.stage = "decoded"
         => /\ codec.result.ok
            /\ codec.result.frame.fin
            /\ codec.result.frame.opcode = 1
            /\ codec.result.frame.payload = codec.payload
            /\ codec.result.offset = Len(codec.bytes)

IsPrefix(a, b) == Len(a) <= Len(b) /\ a = SubSeq(b, 1, Len(a))

\* C18: a read that leaves a frame incomplete removes none of its bytes:
\* however the bytes of the frames are split over reads, for instance 1
\* byte, 1 byte, then the rest, no message is queued before its frame is
\* complete and every message is queued once its last byte has been read
PartialFrameKeepsBytes ==
    /\ IsPrefix(trace.decoded, net.msgs)
    /\ (net.wire = <<>> /\ rt.at = "loop") => trace.decoded = net.msgs

\* C20: the bytes that came with the handshake response are, all and in
\* order, the start of the frame stream, and a complete frame among them
\* is decoded and its message queued though the server sends nothing more
InitialBytesDecoded ==
    /\ [](rt.at = "loop" => rt.frameBuffer = net.head)
    /\ (rt.at = "loop" /\ net.msgs # <<>>)
           ~> (rt.at # "loop" \/ impl.m_incomingMessages = net.msgs)


\* the status line of the response is a 101 and one of its headers is the
\* Upgrade: websocket header
Switched(response) ==
    /\ response.lines # <<>>
    /\ Head(response.lines)[1] = "HTTP/1.1 101"
    /\ \E i \in 2..Len(response.lines) : response.lines[i] = <<"Upgrade: websocket">>

\* C21: the handshake succeeds only if the status line of the response is a
\* 101 and the Upgrade: websocket header is among its headers; after every
\* other response Connect has failed and the transport is not connected
HandshakeOnlyOnSwitch ==
    [][last'.op \in {"Connect", "Connect:return"} /\ pc' = "idle"
              /\ ~Switched(net'.response)
          => last'.ret = "false" /\ ~impl'.m_connected]_vars

\* C22: when Connect has succeeded, no RoomInfo has come and the timeout
\* window has gone by, a call of ProcessMessages makes the attempt fail: the
\* status is no longer Connected afterwards
TimeoutFailsAttempt ==
    [][last'.op = "ProcessMessages" /\ cl.m_status = "Connected"
              /\ cl.m_connectionTimeout = "passed"
          => cl'.m_status # "Connected"]_vars


\* C23: when the read thread has ended (the server closed the connection or
\* a receive failed) while the status is Connected or InGame, GetStatus
\* eventually reports Disconnected though the caller only pumps
TransportLossDisconnects ==
    (impl.m_readThread = "exited" /\ GetStatus \in {"Connected", "InGame"})
        ~> (GetStatus = "Disconnected")


\* C25: the slot number and the team number change only in a step that
\* processes packets, they do not change again once they are known until
\* disconnect(), and when disconnect() has returned the slot number is
\* unknown again
SlotIdentityLifecycle ==
    [][/\ (ap'.m_slotNumber # ap.m_slotNumber \/ ap'.m_teamNumber # ap.m_teamNumber)
              => last'.op \in {"update:receive", "disconnect"}
       /\ (ap.m_slotNumber # NoSlot /\ last'.op # "disconnect")
              => (ap'.m_slotNumber = ap.m_slotNumber /\ ap'.m_teamNumber = ap.m_teamNumber)
       /\ last'.op = "disconnect" => ap'.m_slotNumber = NoSlot]_vars


\* C26: a step that processes a Connected packet, which carries no index,
\* and so makes the session Authenticated leaves the received-item cursor 0
ConnectedResetsCursor ==
    [][last'.op = "update:receive" /\ ap.m_state # "Authenticated"
              /\ ap'.m_state = "Authenticated"
          => ap'.m_lastReceivedIndex = 0]_vars


PongEchoesPing ==
    codec.stage = "ponged"
        => LET pong == DecodeFrame(codec.bytes, 0)
           IN /\ pong.ok
              /\ pong.offset = Len(codec.bytes)
              /\ OpName(pong.frame.opcode) = "PONG"
              /\ Len(pong.frame.payload) = Len(codec.payload)
              /\ pong.frame.payload = codec.payload


SingleWriterSession ==
    [][(\/ cl'.m_status # cl.m_status
        \/ cl'.m_slotId # cl.m_slotId
        \/ cl'.m_team # cl.m_team
        \/ cl'.m_lastReceivedIndex # cl.m_lastReceivedIndex
        \/ cb'.n > 0
        \/ trace'.fired > 0)
          => last'.op \notin AsioOps]_vars


\* C31: in the LWS-based client, while a session is up (the state is not
\* Disconnected) no step other than connect() and disconnect() changes the
\* stored host, port, slot name or password
SessionConfigImmutable ==
    [][(ap.m_state # "Disconnected" /\ last'.op \notin {"connect", "disconnect"})
          => /\ ap'.m_host = ap.m_host
             /\ ap'.m_port = ap.m_port
             /\ ap'.m_slotName = ap.m_slotName
             /\ ap'.m_password = ap.m_password]_vars


\* the bytes of the receive buffer behind the frame header, and the length
\* the header declares
HeaderLength(buffer) ==
    2 + (IF buffer[2] % 128 = 126 THEN 2 ELSE IF buffer[2] % 128 = 127 THEN 8 ELSE 0)
      + (IF buffer[2] \div 128 = 1 THEN 4 ELSE 0)

DeclaredLength(buffer) ==
    IF buffer[2] % 128 = 127 THEN SubSeq(buffer, 3, 10)
    ELSE IF buffer[2] % 128 = 126 THEN U64(256 * buffer[3] + buffer[4], 8)
    ELSE U64(buffer[2] % 128, 8)

\* C32: when the length a complete frame header declares exceeds the bytes
\* that remain in the buffer, whatever 64-bit value it is, DecodeFrame
\* returns false and leaves the buffer as it was
OversizedLengthRefused ==
    (/\ client = "codec" /\ codec.stage = "decoded"
     /\ codec.result.ret # "none"
     /\ Len(codec.bytes) >= HeaderLength(codec.bytes)
     /\ Less64(Len(codec.bytes) - HeaderLength(codec.bytes),
               DeclaredLength(codec.bytes)))
        => /\ codec.result.ret = "false"
           /\ codec.result.buffer = codec.bytes


\* C33: in the LWS-based client a connection attempt ends in state Error,
\* whether connect() reports the failure or the connection-error callback
\* does, only after a connection without SSL has been attempted
FallbackBeforeError ==
    [][(/\ ap.m_state = "Connecting" \/ last'.op = "connect"
        /\ ap'.m_state = "Error"
        /\ last'.op \in {"connect", "update:connection_error"})
          => ws'.m_useSSL = FALSE]_vars


\* C34: in the queue-based client, a ProcessMessages call that handles a
\* Connected packet last, with the transport still connected, returns with
\* the status InGame
ConnectedPacketGivesInGame ==
    [][(/\ client = "queue"
        /\ last'.op = "ProcessMessages" /\ last'.heard = "Connected"
        /\ impl'.m_connected /\ impl'.m_status = "Connected")
          => cl'.m_status = "InGame"]_vars


\* C35: in the raw-socket client a ProcessMessages call made in status InGame
\* never ends in status Connected and sends no Connect packet
InGameNeverBackToConnected ==
    [][(/\ client = "raw"
        /\ cl.m_status = "InGame" /\ last'.op = "ProcessMessages")
          => /\ cl'.m_status # "Connected"
             /\ ConnectPackets(sent') = {}]_vars


\* C36: a step that takes the LWS-based client to Authenticated, or the
\* raw-socket client to InGame, starts in the state Connected
AuthenticatedOnlyFromConnected ==
    [][/\ (ap'.m_state = "Authenticated" /\ ap.m_state # "Authenticated")
            => ap.m_state = "Connected"
       /\ (cl'.m_status = "InGame" /\ cl.m_status # "InGame")
            => cl.m_status = "Connected"]_vars


\* C37: in the raw-socket client a ProcessMessages call made in status
\* Disconnected leaves the status Disconnected, and a Connect() that starts a
\* connection starts it with an empty outgoing queue
DisconnectedStaysDisconnected ==
    [][/\ (/\ client = "raw" /\ pc = "idle"
           /\ cl.m_status = "Disconnected" /\ last'.op = "ProcessMessages")
            => cl'.m_status = "Disconnected"
       /\ (/\ client = "raw"
           /\ cl.m_status = "Disconnected" /\ last'.op = "Connect"
           /\ cl'.m_status \in {"Connecting", "Connected"})
            => cl'.m_outgoingQueue = <<>>]_vars


\* C38: in the raw-socket client the incoming queue is touched only by the
\* thread that holds m_incomingMutex, and at every moment the text messages
\* HandleFrame has pushed are, each exactly once and in order, those
\* GetIncomingMessages has returned or copied followed by those still queued
IncomingExactlyOnce ==
    client = "inbox"
        => /\ rt.at = "locked" => impl.m_incomingMutex = "reader"
           /\ pc.at \in {"loop", "pop"} => impl.m_incomingMutex = "caller"
           /\ LET pushed == IF rt.at = "idle" THEN trace.decoded
                            ELSE SubSeq(trace.decoded, 1, Len(trace.decoded) - 1)
                  queued == IF pc.at = "pop" THEN Tail(impl.m_incomingMessages)
                            ELSE impl.m_incomingMessages
              IN pushed = (trace.returned \o pc.messages) \o queued

\* GetIncomingMessages has returned two messages and is copying a third
\* while HandleFrame waits for the mutex with a fourth
DrainedWhilePushing ==
    /\ client = "inbox"
    /\ pc.at = "pop" /\ rt.at = "built"
    /\ Len(trace.returned) = 2
    /\ pc.messages = <<3>> /\ rt.message = 4


\* C39: in the raw-socket client the read thread is never inside send() for
\* a Pong on a socket that Disconnect has closed
ReadThreadSocketOpen ==
    (client = "raw" /\ rt.at = "pong") => impl.m_socket # "INVALID"


\* C40: in the raw-socket client a turn of the read loop that handles a
\* Close frame, which is then the first frame of the read, queues no text
\* message
NothingQueuedAfterClose ==
    [][(/\ client = "raw" /\ last'.op = "thread"
        /\ impl.m_running /\ ~impl'.m_running)
          => impl'.m_incomingMessages = impl.m_incomingMessages]_vars


====
